---- MODULE Spec2Model ----
(***************************************************************************)
(* Teleport core: the control-channel session between ControlClient (the   *)
(* sender) and ControlServer (the receiver), and the ParallelTransfer      *)
(* multi-stream chunk pipeline.                                            *)
(*                                                                         *)
(* SessionSpec  - one sender session against one receiver, conforming peer *)
(* SchemaSpec   - the same session where one control message of the peer   *)
(*                carries a schema-invalid payload                         *)
(* PTSpec       - ParallelTransfer::send_file against receive_file         *)
(* CtlSpec      - an accepted session with pause(), resume(), cancel()     *)
(* PTCtlSpec    - send_file with pause(), resume(), cancel()               *)
(* EngineSpec   - teleport_send_files, the handle, teleport_destroy        *)
(* NamesSpec    - sanitize_filename and the paths the receivers open       *)
(* DiscoverySpec - DiscoveryManager with its DeviceList                    *)
(* DeviceListSpec - DeviceList called directly                              *)
(* DiscoveryThreadsSpec - the threads of discovery, start and stop         *)
(* ResumeSpec   - ResumeManager::save and load of one ResumeState          *)
(* TrackerSpec  - a ChunkTracker used by one thread                        *)
(* PortSpec     - ControlServer::start and the port a device announces     *)
(* PTStreamsSpec - ParallelTransfer with streams that can be closed        *)
(* HeaderSpec   - the receivers and the chunk headers of a peer            *)
(* OverlapSpec  - send_files called from several threads                   *)
(* FileListSpec - the files of one FILE_LIST on the receiver's disk        *)
(* ResumeKeysSpec - ResumeManager with the states of several transfers     *)
(* ControlStopSpec - ControlServer's accept thread and stop                *)
(* OffsetSpec   - ChunkHeader::offset as the senders compute it            *)
(***************************************************************************)
EXTENDS Integers, Sequences, FiniteSets, TLC

(* ------------------------------------------------------------------ *)
(* Program constants                                                  *)
(* ------------------------------------------------------------------ *)
TELEPORT_PROTOCOL_VERSION == 1
TELEPORT_OK == 0
TELEPORT_CONTROL_PORT_MIN == 45455
TELEPORT_CONTROL_PORT_MAX == 45555
\* tries of the bind loop of ControlServer::start
MaxBindTries == 100
TELEPORT_ERROR_SOCKET_CREATE == -3
TELEPORT_ERROR_SOCKET_BIND == -4
TELEPORT_ERROR_SOCKET_CONNECT == -5
TELEPORT_ERROR_SOCKET_SEND == -6
TELEPORT_ERROR_SOCKET_RECV == -7
TELEPORT_ERROR_FILE_OPEN == -8
TELEPORT_ERROR_FILE_READ == -9
TELEPORT_ERROR_FILE_WRITE == -10
TELEPORT_ERROR_PROTOCOL == -11
TELEPORT_ERROR_CANCELLED == -13
TELEPORT_ERROR_REJECTED == -14
TELEPORT_ERROR_ALREADY_RUNNING == -15
TELEPORT_ERROR_TRANSFER_FAILED == -19
TELEPORT_ERROR_INTERNAL == -100

(* ------------------------------------------------------------------ *)
(* Bounds of the model                                                *)
(* ------------------------------------------------------------------ *)
\* m_config.chunk_size, scaled down to bytes the model can enumerate
ChunkSize == 2
\* largest number of files in one FILE_LIST
MaxFiles == 2
\* largest file size in bytes
MaxFileSize == 3
\* a protocol version other than the receiver's
OtherVersion == 2
\* m_config.num_streams of a ParallelTransfer
NumStreams == 2
\* largest file size, in bytes, given to a ParallelTransfer
PTMaxFileSize == 5
\* the length sanitize_filename truncates to (240 bytes), scaled down
MaxSanitizedLen == 16
\* the longest extension truncation preserves (10 bytes), scaled down
MaxExtLen == 3
\* longest run of arbitrary bytes before and after the body of a raw name
MaxEdge == 2
\* largest number of leading parent-directory components of a raw name
MaxUp == 2
\* number of peers announcing themselves to the DiscoveryManager
NumPeers == 2
\* config.device_ttl_ms, in clock steps of the model
DeviceTtl == 3
\* the sleep of the expiration loop (1000 ms), in clock steps of the model
ExpirySleep == 2
\* last clock value of the model
MaxTime == 8
\* teleport.h line 56
TELEPORT_CHUNK_SIZE == 2097152
\* the last chunk id of a file a little over 4 GiB
MaxChunkId == 2050
\* connections a ControlServer is followed through
MaxSessions == 2
\* messages a peer sends in one session on the control connection
SessionMessages == 3
\* threads that call send_files on one ControlClient
NumCallers == 2
\* headers a receiver takes from a peer that does not conform
MaxHeaders == 3
\* chunk ids given to a ChunkTracker on its own run from 0 to MaxTotal; its
\* total_chunks stays below MaxTotal
MaxTotal == 6

VARIABLES
    \* inputs fixed at session start
    files,            \* sizes of the sender's m_files, file id = index - 1
    sender_version,   \* TELEPORT_PROTOCOL_VERSION of the sender's build
    on_incoming,      \* receiver's m_on_incoming: "none" | "accept" | "reject"
    corrupt,          \* [type, how]: the peer message whose payload is schema-invalid
    resume_store,     \* ResumeState the receiver's ResumeManager holds for file 0
    \* control connection, as the sequence of everything written and a read cursor
    c2s, c2s_rd, s2c, s2c_rd,
    \* ControlClient
    cc_pc, m_state, cc_final_error, cc_on_complete, cc_result,
    cc_file_idx, cc_bytes_remaining, cc_chunk_id, cc_closed,
    \* ControlClient: pause / cancel requests, and the calls of pause(),
    \* resume() and cancel() made so far with the session's position at each
    m_pause_requested, m_cancel_requested, cc_calls,
    \* the sender's TeleportEngine: the position of teleport_destroy and the
    \* transfer handle teleport_send_files has stored in *out_transfer
    td_pc, out_transfer,
    \* ControlServer
    cs_pc, cs_final_error, cs_on_complete, cs_files, cs_accepted, cs_cb_calls,
    cs_file_idx, cs_bytes_remaining, cs_created, cs_disk, cs_closed,
    \* ParallelTransfer: inputs of send_file / receive_file
    pt_file_size,     \* size of the file in bytes
    pt_skip,          \* skip_chunks given to send_file
    pt_existing,      \* existing_chunks given to receive_file: none, or the
                      \* list the sender was given as skip_chunks
    \* data streams: everything written on stream i, and the receiver's cursor
    pt_stream, pt_rd,
    \* sending ParallelTransfer
    ps_pc, ps_running, ps_cancelled, m_work_queue, ps_wpc, ps_work,
    ps_result, ps_errors,
    \* sending ParallelTransfer: m_paused, and the calls of pause(), resume()
    \* and cancel() made so far with the frames sent on each stream at each
    ps_paused, ps_calls,
    \* receiving ParallelTransfer
    pr_pc, pr_running, pr_cancelled, pr_wpc, pr_header, m_tracker, pr_local,
    m_output_file, m_file_mutex, pr_written, pr_result,
    pr_errors,        \* failed receives and writes of the receiver workers
    \* receive paths: the name of a FILE_LIST entry as the peer sent it, the
    \* value sanitize_filename returned for it, and the files opened for it
    raw_name, sn_result, rx_opened,
    \* DiscoveryManager: the clock now_ms(), m_running, the DeviceList
    \* (m_devices: id -> last_seen_ms, m_order), the time the expiration
    \* loop's sleep ends, the last callback made for each id, and the time
    \* the listener last accepted an announcement of each peer
    d_now, disc_running, m_devices, m_order, d_wake, d_last_cb, d_heard,
    dl_expired,       \* the ids the last remove_expired() returned
    \* the threads of a running discovery: UdpListener (m_running, position
    \* of listen_loop, the device parsed, socket open), UdpBroadcaster
    \* (m_running, position of broadcast_loop, socket open), the position of
    \* expiration_loop, and the position of a call of stop()
    lis_running, lis_pc, lis_dev, lis_sock, bc_running, bc_pc, bc_sock,
    exp_pc, stop_pc,
    \* TeleportEngine: the callbacks and user data registered (on_device,
    \* on_device_lost, callback_data) and the value the last call of
    \* teleport_start_discovery returned
    eng_cb, api_result,
    \* what the caller has been told: "Stopped" | "Running" | "Stopping",
    \* the callbacks given to the start that succeeded, and whether a found
    \* or lost callback has fired while the caller was told "Stopped"
    d_api, started_cb, cb_in_stopped,
    \* ResumeManager: the ResumeState given to save, the system clock in
    \* seconds, the bytes of the state file (<<>>: no file), what save
    \* returned and what load returned
    rs_state, rs_clock, rs_file, rs_saved, rs_loaded,
    \* a ChunkTracker on its own: m_total, the bitmap and counter, and the
    \* chunk ids mark_received has been called with
    ct_total, ct_tracker, ct_marked,
    \* ControlServer and the port a device announces: Config::control_port,
    \* the TCP ports other programs hold, ControlServer::m_port and
    \* m_running, what start returned (<<>>: not called) and the step it
    \* failed in, m_self_device.address.port, the announcements broadcast
    \* and the port of the address a peer has stored
    cfg_control_port, busy_ports, m_port, srv_running, srv_result, srv_fail,
    self_port, announced, peer_address,
    \* how the receiving ParallelTransfer got its streams ("accept" |
    \* "connect") and whether the sending one has closed its streams
    pr_role, ps_closed,
    \* a receiver fed headers by a peer that does not conform: which
    \* receiver ("control" | "parallel"), the announced size of the file,
    \* bytes_remaining and the position of the output file (control), the
    \* positions written, the bytes written in all, the largest number of
    \* data bytes read for one chunk, how the receive stands ("receiving" |
    \* "done" | "error" | "undefined"), the tracker (parallel) and the number
    \* of headers received
    hv_kind, hv_file_size, hv_remaining, hv_pos, hv_written, hv_total,
    hv_maxread, hv_status, hv_tracker, hv_count,
    \* send_files called by several threads on one ControlClient: where
    \* each call is, m_state, whose callbacks and whose file list the client
    \* holds (0: none) and m_cancel_requested
    sf_pc, sf_m_state, sf_callbacks, sf_files, sf_cancel,
    \* the files of one FILE_LIST at the receiver: names and sizes of the
    \* entries, the entry being received, where receive_files is, and the
    \* content of every path of the output directory
    fl_names, fl_sizes, fl_idx, fl_pc, fl_disk,
    \* a state directory of ResumeManager: the content of every file, the
    \* (file_name, sender_id) pairs saved, and the last load with its answer
    rk_dir, rk_saved, rk_loaded,
    \* ControlServer with its accept thread: m_running, where the accept
    \* thread and a call of stop are, the connected peer, the messages it
    \* has sent and the handler has read, and whether a receiver callback
    \* was called after stop returned
    st_running, st_acc, st_stop, st_peer, st_sent, st_read, st_late_cb,
    \* the calls of m_on_complete so far
    st_completed,
    \* a sender of chunk frames, the chunk it sends next and the header it
    \* built last
    of_sender, of_chunk_id, of_header

inputVars == <<files, sender_version, on_incoming, corrupt, resume_store>>
netVars == <<c2s, c2s_rd, s2c, s2c_rd>>
clientCtlVars == <<m_pause_requested, m_cancel_requested, cc_calls>>
clientVars == <<cc_pc, m_state, cc_final_error, cc_on_complete, cc_result,
                cc_file_idx, cc_bytes_remaining, cc_chunk_id, cc_closed,
                clientCtlVars>>
serverVars == <<cs_pc, cs_final_error, cs_on_complete, cs_files, cs_accepted,
                cs_cb_calls, cs_file_idx, cs_bytes_remaining, cs_created,
                cs_disk, cs_closed>>
engineVars == <<td_pc, out_transfer>>
sessionVars == <<inputVars, netVars, clientVars, serverVars, engineVars>>

ptInputVars == <<pt_file_size, pt_skip, pt_existing>>
ptStreamVars == <<pt_stream, pt_rd>>
ptCtlVars == <<ps_paused, ps_calls>>
ptSenderVars == <<ps_pc, ps_running, ps_cancelled, m_work_queue, ps_wpc,
                  ps_work, ps_result, ps_errors, ptCtlVars>>
ptReceiverVars == <<pr_pc, pr_running, pr_cancelled, pr_wpc, pr_header,
                    m_tracker, pr_local, m_output_file, m_file_mutex,
                    pr_written, pr_result, pr_errors>>
ptVars == <<ptInputVars, ptStreamVars, ptSenderVars, ptReceiverVars>>

nameVars == <<raw_name, sn_result, rx_opened>>
discThreadVars == <<lis_running, lis_pc, lis_dev, lis_sock, bc_running,
                    bc_pc, bc_sock, exp_pc, stop_pc, eng_cb, api_result,
                    d_api, started_cb, cb_in_stopped>>
discVars == <<d_now, disc_running, m_devices, m_order, d_wake, d_last_cb,
              d_heard, dl_expired, discThreadVars>>

resumeVars == <<rs_state, rs_clock, rs_file, rs_saved, rs_loaded>>
trackerVars == <<ct_total, ct_tracker, ct_marked>>
portVars == <<cfg_control_port, busy_ports, m_port, srv_running, srv_result,
              srv_fail, self_port, announced, peer_address>>
ptSideVars == <<pr_role, ps_closed>>
headerVars == <<hv_kind, hv_file_size, hv_remaining, hv_pos, hv_written,
                hv_total, hv_maxread, hv_status, hv_tracker, hv_count>>
overlapVars == <<sf_pc, sf_m_state, sf_callbacks, sf_files, sf_cancel>>
fileListVars == <<fl_names, fl_sizes, fl_idx, fl_pc, fl_disk>>
resumeKeyVars == <<rk_dir, rk_saved, rk_loaded>>
stopVars == <<st_running, st_acc, st_stop, st_peer, st_sent, st_read,
             st_late_cb, st_completed>>
offsetVars == <<of_sender, of_chunk_id, of_header>>
restVars == <<fileListVars, resumeKeyVars, stopVars, offsetVars>>
sideVars == <<ptSideVars, headerVars, overlapVars, restVars>>
localVars == <<resumeVars, trackerVars, portVars, sideVars>>

vars == <<sessionVars, ptVars, nameVars, discVars, localVars>>

(* ------------------------------------------------------------------ *)
(* Helpers                                                            *)
(* ------------------------------------------------------------------ *)
Min(a, b) == IF a < b THEN a ELSE b

\* FileInfo.total_chunks = ceil(size / chunk_size)
TotalChunks(size) == (size + ChunkSize - 1) \div ChunkSize

\* sequences of file sizes of length 1..n
RECURSIVE FileLists(_)
FileLists(n) ==
    IF n = 0 THEN {}
    ELSE {<<s>> : s \in 0..MaxFileSize}
         \cup {Append(l, s) : l \in FileLists(n - 1), s \in 0..MaxFileSize}

\* a frame on the control connection: a control message or a chunk frame
NoMsg == [type |-> "NONE", ver |-> 0, flag |-> FALSE, code |-> 0,
          list |-> <<>>, file_id |-> 0, chunk_id |-> 0, offset |-> 0,
          size |-> 0, schema |-> "ok"]

\* the payload of a message of type t as the peer serialises it
SchemaOf(t) == IF corrupt.type = t THEN corrupt.how ELSE "ok"

MakeMsg(t) == [NoMsg EXCEPT !.type = t, !.schema = SchemaOf(t)]

\* from_json throws for a payload that violates the schema
FromJsonThrows(m) == m.schema # "ok"

\* error tag the handlers of send_files give an exception of from_json:
\*   nlohmann::json::exception (unchecked get<>/value) -> PROTOCOL
\*   std::runtime_error (explicit field checks)        -> TRANSFER_FAILED
ClientCatch(m) ==
    IF m.schema = "badtype" THEN TELEPORT_ERROR_PROTOCOL
    ELSE TELEPORT_ERROR_TRANSFER_FAILED

\* handle_connection has a single handler, for std::exception
ServerCatch(m) == TELEPORT_ERROR_INTERNAL

\* MessageReader::read / recv_all on the client
ClientCanRead == s2c_rd < Len(s2c)
ClientReadFails == s2c_rd = Len(s2c) /\ cs_closed
ClientHead == s2c[s2c_rd + 1]

ServerCanRead == c2s_rd < Len(c2s)
ServerReadFails == c2s_rd = Len(c2s) /\ cc_closed
ServerHead == c2s[c2s_rd + 1]

(* ------------------------------------------------------------------ *)
(* Initial states                                                     *)
(* ------------------------------------------------------------------ *)
CorruptNone == [type |-> "NONE", how |-> "ok"]

CorruptChoices ==
    {CorruptNone} \cup
    [type : {"HANDSHAKE", "HANDSHAKE_ACK", "FILE_LIST", "ACCEPT", "REJECT",
             "COMPLETE", "ERROR"},
     how : {"missing", "badtype"}]

\* ResumeState::is_valid() and file_size matching the announced size, with
\* its received_chunks; NoResume when load() finds nothing
NoResume == [valid |-> FALSE, received_chunks |-> {}]

ResumeChoices(fs) ==
    {NoResume} \cup
    {[valid |-> TRUE, received_chunks |-> S] :
        S \in (SUBSET (0..(TotalChunks(fs[1]) - 1))) \ {{}}}

Peers == 1..NumPeers

\* no name received, sanitize_filename not called, no file opened
NamesIdle ==
    /\ raw_name = <<>> /\ sn_result = <<>> /\ rx_opened = {}

\* ResumeManager(state_dir): nothing saved, nothing loaded
ResumeIdle ==
    /\ rs_state = <<>> /\ rs_clock = 0 /\ rs_file = <<>>
    /\ rs_saved = <<>> /\ rs_loaded = <<>>

\* ChunkTracker(total_chunks): no bit set, m_received = 0
NewTracker == [m_chunks |-> {}, m_received |-> 0]

\* no ChunkTracker on its own
TrackerIdle ==
    /\ ct_total = 0 /\ ct_tracker = NewTracker /\ ct_marked = {}

\* no engine created: no server, nothing announced
PortIdle ==
    /\ cfg_control_port = 0 /\ busy_ports = {}
    /\ m_port = 0 /\ srv_running = FALSE
    /\ srv_result = <<>> /\ srv_fail = "none"
    /\ self_port = 0 /\ announced = {} /\ peer_address = <<>>

\* streams taken with accept(), open at the sender
PTSideIdle == pr_role = "accept" /\ ps_closed = FALSE

\* no header received
HeaderIdle ==
    /\ hv_kind = "control" /\ hv_file_size = 0 /\ hv_remaining = 0
    /\ hv_pos = 0 /\ hv_written = {} /\ hv_total = 0 /\ hv_maxread = 0
    /\ hv_status = "done" /\ hv_tracker = NewTracker /\ hv_count = 0

\* no send_files call
OverlapIdle ==
    /\ sf_pc = <<>> /\ sf_m_state = "Idle" /\ sf_callbacks = 0
    /\ sf_files = 0 /\ sf_cancel = FALSE

\* no FILE_LIST
FileListIdle ==
    /\ fl_names = <<>> /\ fl_sizes = <<>> /\ fl_idx = 1
    /\ fl_pc = "done" /\ fl_disk = <<>>

\* no state directory
ResumeKeysIdle == rk_dir = <<>> /\ rk_saved = {} /\ rk_loaded = <<>>

\* ControlServer::ControlServer: no accept thread, no connection
ControlStopIdle ==
    /\ st_running = FALSE /\ st_acc = "none" /\ st_stop = "none"
    /\ st_peer = "none" /\ st_sent = 0 /\ st_read = 0
    /\ st_late_cb = FALSE /\ st_completed = 0

\* no sender of chunk frames
OffsetIdle == of_sender = "none" /\ of_chunk_id = 0 /\ of_header = <<>>

RestIdle ==
    FileListIdle /\ ResumeKeysIdle /\ ControlStopIdle /\ OffsetIdle

SideIdle == PTSideIdle /\ HeaderIdle /\ OverlapIdle /\ RestIdle

LocalIdle == ResumeIdle /\ TrackerIdle /\ PortIdle /\ SideIdle

\* DiscoveryManager(config): m_running false, DeviceList empty
DiscoveryConstructed ==
    /\ d_now = 0 /\ disc_running = FALSE
    /\ m_devices = [p \in {} |-> 0] /\ m_order = <<>>
    /\ d_wake = 0
    /\ d_last_cb = [p \in Peers |-> "none"]
    /\ d_heard = [p \in Peers |-> -1]
    /\ dl_expired = {}
    /\ lis_running = FALSE /\ lis_pc = "none" /\ lis_dev = 0
    /\ lis_sock = FALSE
    /\ bc_running = FALSE /\ bc_pc = "none" /\ bc_sock = FALSE
    /\ exp_pc = "none" /\ stop_pc = "none"
    /\ eng_cb = "none" /\ api_result = TELEPORT_OK
    /\ d_api = "Stopped" /\ started_cb = "none" /\ cb_in_stopped = FALSE

SessionInitCommon ==
    /\ NamesIdle /\ DiscoveryConstructed /\ LocalIdle
    /\ files \in FileLists(MaxFiles)
    /\ sender_version \in {TELEPORT_PROTOCOL_VERSION, OtherVersion}
    /\ on_incoming \in {"none", "accept", "reject"}
    /\ resume_store \in ResumeChoices(files)
    /\ c2s = <<>> /\ c2s_rd = 0 /\ s2c = <<>> /\ s2c_rd = 0
    /\ cc_pc = "idle" /\ m_state = "Idle" /\ cc_final_error = TELEPORT_OK
    /\ cc_on_complete = <<>> /\ cc_result = <<>>
    /\ cc_file_idx = 1 /\ cc_bytes_remaining = 0 /\ cc_chunk_id = 0
    /\ cc_closed = FALSE
    /\ m_pause_requested = FALSE /\ m_cancel_requested = FALSE
    /\ cc_calls = <<>>
    /\ td_pc = "none" /\ out_transfer = FALSE
    /\ cs_pc = "accept" /\ cs_final_error = TELEPORT_OK /\ cs_on_complete = <<>>
    /\ cs_files = <<>> /\ cs_accepted = FALSE /\ cs_cb_calls = 0
    /\ cs_file_idx = 1 /\ cs_bytes_remaining = 0 /\ cs_created = {}
    /\ cs_disk = [i \in 1..MaxFiles |-> <<>>]
    /\ cs_closed = FALSE

Streams == 1..NumStreams

\* chunk ids of a file of the given size
ChunkIds(size) == 0..(TotalChunks(size) - 1)

\* ParallelTransfer(config): m_running, m_paused, m_cancelled false, no
\* stream connected, empty queue
PTConstructed ==
    /\ pt_stream = [i \in Streams |-> <<>>]
    /\ pt_rd = [i \in Streams |-> 0]
    /\ ps_pc = "idle" /\ ps_running = FALSE /\ ps_cancelled = FALSE
    /\ m_work_queue = <<>>
    /\ ps_wpc = [i \in Streams |-> "none"]
    /\ ps_work = [i \in Streams |-> 0]
    /\ ps_result = <<>> /\ ps_errors = 0
    /\ ps_paused = FALSE /\ ps_calls = <<>>
    /\ pr_pc = "idle" /\ pr_running = FALSE /\ pr_cancelled = FALSE
    /\ pr_wpc = [i \in Streams |-> "none"]
    /\ pr_header = [i \in Streams |-> 0]
    /\ m_tracker = NewTracker
    /\ pr_local = [i \in Streams |-> NewTracker]
    /\ m_output_file = [content |-> <<>>, m_position |-> 0]
    /\ m_file_mutex = 0
    /\ pr_written = {}
    /\ pr_result = <<>>
    /\ pr_errors = 0

SessionInit ==
    /\ SessionInitCommon
    /\ corrupt = CorruptNone
    /\ pt_file_size = 0 /\ pt_skip = {} /\ pt_existing = {}
    /\ PTConstructed

SchemaInit ==
    /\ SessionInitCommon
    /\ corrupt \in CorruptChoices \ {CorruptNone}
    /\ pt_file_size = 0 /\ pt_skip = {} /\ pt_existing = {}
    /\ PTConstructed

\* no session: ControlClient and ControlServer as constructed
SessionIdle ==
    /\ files = <<0>>
    /\ sender_version = TELEPORT_PROTOCOL_VERSION
    /\ on_incoming = "none"
    /\ resume_store = NoResume
    /\ corrupt = CorruptNone
    /\ c2s = <<>> /\ c2s_rd = 0 /\ s2c = <<>> /\ s2c_rd = 0
    /\ cc_pc = "idle" /\ m_state = "Idle" /\ cc_final_error = TELEPORT_OK
    /\ cc_on_complete = <<>> /\ cc_result = <<>>
    /\ cc_file_idx = 1 /\ cc_bytes_remaining = 0 /\ cc_chunk_id = 0
    /\ cc_closed = FALSE
    /\ m_pause_requested = FALSE /\ m_cancel_requested = FALSE
    /\ cc_calls = <<>>
    /\ td_pc = "none" /\ out_transfer = FALSE
    /\ cs_pc = "accept" /\ cs_final_error = TELEPORT_OK /\ cs_on_complete = <<>>
    /\ cs_files = <<>> /\ cs_accepted = FALSE /\ cs_cb_calls = 0
    /\ cs_file_idx = 1 /\ cs_bytes_remaining = 0 /\ cs_created = {}
    /\ cs_disk = [i \in 1..MaxFiles |-> <<>>]
    /\ cs_closed = FALSE

\* a sender and a receiver ParallelTransfer with the inputs of one file
PTInit ==
    /\ pt_file_size \in 0..PTMaxFileSize
    /\ pt_skip \in SUBSET ChunkIds(pt_file_size)
    /\ pt_existing \in {{}, pt_skip}
    /\ PTConstructed
    /\ SessionIdle
    /\ NamesIdle /\ DiscoveryConstructed /\ LocalIdle

(* ------------------------------------------------------------------ *)
(* ControlClient::send_files                                          *)
(* ------------------------------------------------------------------ *)
\* leave the try block for the cleanup label with an error
ClientFail(err) ==
    /\ cc_final_error' = err
    /\ cc_pc' = "cleanup"

\* lines 37-75: the Idle guard, the file list, state Connecting; the call
\* is made on an engine teleport_destroy has not been called on
SendFilesBegin ==
    /\ cc_pc = "idle"
    /\ td_pc = "none"
    /\ m_state = "Idle"
    /\ m_state' = "Connecting"
    /\ cc_pc' = "connect"
    /\ cc_final_error' = TELEPORT_OK
    /\ m_pause_requested' = FALSE
    /\ m_cancel_requested' = FALSE
    /\ UNCHANGED <<cc_on_complete, cc_result, cc_file_idx, cc_bytes_remaining,
                   cc_chunk_id, cc_closed, cc_calls>>
    /\ UNCHANGED <<inputVars, netVars, serverVars>>
    /\ UNCHANGED <<ptVars, nameVars, discVars, localVars>>
    /\ UNCHANGED engineVars

\* connect_to_target succeeds: the accept loop takes the connection
ConnectToTargetOk ==
    /\ cc_pc = "connect"
    /\ cs_pc = "accept"
    /\ m_state' = "Handshaking"
    /\ cc_pc' = "handshake"
    /\ cs_pc' = "handshake"
    /\ UNCHANGED <<cc_final_error, cc_on_complete, cc_result, cc_file_idx,
                   cc_bytes_remaining, cc_chunk_id, cc_closed>>
    /\ UNCHANGED <<cs_final_error, cs_on_complete, cs_files, cs_accepted,
                   cs_cb_calls, cs_file_idx, cs_bytes_remaining, cs_created,
                   cs_disk, cs_closed>>
    /\ UNCHANGED <<inputVars, netVars>>
    /\ UNCHANGED clientCtlVars
    /\ UNCHANGED <<ptVars, nameVars, discVars, localVars>>
    /\ UNCHANGED engineVars

\* connect_to_target fails (refused, unreachable, timed out)
ConnectToTargetFail ==
    /\ cc_pc = "connect"
    /\ ClientFail(TELEPORT_ERROR_SOCKET_CONNECT)
    /\ UNCHANGED <<m_state, cc_on_complete, cc_result, cc_file_idx,
                   cc_bytes_remaining, cc_chunk_id, cc_closed>>
    /\ UNCHANGED <<inputVars, netVars, serverVars>>
    /\ UNCHANGED clientCtlVars
    /\ UNCHANGED <<ptVars, nameVars, discVars, localVars>>
    /\ UNCHANGED engineVars

\* the handshake written, the reply not awaited
ClientSendHandshake_NoWait ==
    /\ cc_pc = "handshake"
    /\ c2s' = Append(c2s, [MakeMsg("HANDSHAKE") EXCEPT !.ver = sender_version])
    /\ cc_pc' = "file_list"
    /\ UNCHANGED <<m_state, cc_final_error, cc_on_complete, cc_result,
                   cc_file_idx, cc_bytes_remaining, cc_chunk_id, cc_closed>>
    /\ UNCHANGED <<c2s_rd, s2c, s2c_rd>>
    /\ UNCHANGED <<inputVars, serverVars>>
    /\ UNCHANGED clientCtlVars
    /\ UNCHANGED <<ptVars, nameVars, discVars, localVars>>
    /\ UNCHANGED engineVars

\* perform_handshake, lines 199-211: write HANDSHAKE
ClientSendHandshake ==
    /\ cc_pc = "handshake"
    /\ c2s' = Append(c2s, [MakeMsg("HANDSHAKE") EXCEPT !.ver = sender_version])
    /\ cc_pc' = "handshake_ack"
    /\ UNCHANGED <<m_state, cc_final_error, cc_on_complete, cc_result,
                   cc_file_idx, cc_bytes_remaining, cc_chunk_id, cc_closed>>
    /\ UNCHANGED <<c2s_rd, s2c, s2c_rd>>
    /\ UNCHANGED <<inputVars, serverVars>>
    /\ UNCHANGED clientCtlVars
    /\ UNCHANGED <<ptVars, nameVars, discVars, localVars>>
    /\ UNCHANGED engineVars

\* perform_handshake, lines 213-232: read the reply
ClientRecvHandshakeAck ==
    /\ cc_pc = "handshake_ack"
    /\ \/ /\ ClientReadFails
          /\ ClientFail(TELEPORT_ERROR_SOCKET_RECV)
          /\ UNCHANGED s2c_rd
       \/ /\ ClientCanRead
          /\ s2c_rd' = s2c_rd + 1
          /\ LET m == ClientHead IN
             IF m.type = "ERROR"
             THEN IF FromJsonThrows(m)
                  THEN ClientFail(ClientCatch(m))
                  ELSE ClientFail(m.code)
             ELSE IF m.type # "HANDSHAKE_ACK"
             THEN ClientFail(TELEPORT_ERROR_PROTOCOL)
             ELSE /\ cc_pc' = "file_list"
                  /\ UNCHANGED cc_final_error
    /\ UNCHANGED <<m_state, cc_on_complete, cc_result, cc_file_idx,
                   cc_bytes_remaining, cc_chunk_id, cc_closed>>
    /\ UNCHANGED <<c2s, c2s_rd, s2c>>
    /\ UNCHANGED <<inputVars, serverVars>>
    /\ UNCHANGED clientCtlVars
    /\ UNCHANGED <<ptVars, nameVars, discVars, localVars>>
    /\ UNCHANGED engineVars

\* send_file_list
ClientSendFileList ==
    /\ cc_pc = "file_list"
    /\ c2s' = Append(c2s, [MakeMsg("FILE_LIST") EXCEPT !.list = files])
    /\ cc_pc' = "acceptance"
    /\ UNCHANGED <<m_state, cc_final_error, cc_on_complete, cc_result,
                   cc_file_idx, cc_bytes_remaining, cc_chunk_id, cc_closed>>
    /\ UNCHANGED <<c2s_rd, s2c, s2c_rd>>
    /\ UNCHANGED <<inputVars, serverVars>>
    /\ UNCHANGED clientCtlVars
    /\ UNCHANGED <<ptVars, nameVars, discVars, localVars>>
    /\ UNCHANGED engineVars

\* wait_for_acceptance; on success send_files stores Transferring
ClientWaitForAcceptance ==
    /\ cc_pc = "acceptance"
    /\ \/ /\ ClientReadFails
          /\ ClientFail(TELEPORT_ERROR_SOCKET_RECV)
          /\ UNCHANGED <<s2c_rd, m_state>>
       \/ /\ ClientCanRead
          /\ s2c_rd' = s2c_rd + 1
          /\ LET m == ClientHead IN
             IF m.type = "REJECT"
             THEN /\ IF FromJsonThrows(m)
                     THEN ClientFail(ClientCatch(m))
                     ELSE ClientFail(TELEPORT_ERROR_REJECTED)
                  /\ UNCHANGED m_state
             ELSE IF m.type # "ACCEPT"
             THEN /\ ClientFail(TELEPORT_ERROR_PROTOCOL)
                  /\ UNCHANGED m_state
             ELSE IF FromJsonThrows(m)
             THEN /\ ClientFail(ClientCatch(m))
                  /\ UNCHANGED m_state
             ELSE /\ cc_pc' = "start"
                  /\ m_state' = "Transferring"
                  /\ UNCHANGED cc_final_error
    /\ UNCHANGED <<cc_on_complete, cc_result, cc_file_idx,
                   cc_bytes_remaining, cc_chunk_id, cc_closed>>
    /\ UNCHANGED <<c2s, c2s_rd, s2c>>
    /\ UNCHANGED <<inputVars, serverVars>>
    /\ UNCHANGED clientCtlVars
    /\ UNCHANGED <<ptVars, nameVars, discVars, localVars>>
    /\ UNCHANGED engineVars

\* transfer_files, lines 277-286: write START
ClientSendStart ==
    /\ cc_pc = "start"
    /\ c2s' = Append(c2s, MakeMsg("START"))
    /\ cc_pc' = "file"
    /\ cc_file_idx' = 1
    /\ UNCHANGED <<m_state, cc_final_error, cc_on_complete, cc_result,
                   cc_bytes_remaining, cc_chunk_id, cc_closed>>
    /\ UNCHANGED <<c2s_rd, s2c, s2c_rd>>
    /\ UNCHANGED <<inputVars, serverVars>>
    /\ UNCHANGED clientCtlVars
    /\ UNCHANGED <<ptVars, nameVars, discVars, localVars>>
    /\ UNCHANGED engineVars

\* transfer_files lines 289-293: the loop over the files and its test of
\* m_cancel_requested
ClientNextFile ==
    /\ cc_pc = "file"
    /\ IF cc_file_idx > Len(files)
       THEN cc_pc' = "complete" /\ UNCHANGED cc_final_error
       ELSE IF m_cancel_requested
       THEN ClientFail(TELEPORT_ERROR_CANCELLED)
       ELSE cc_pc' = "open" /\ UNCHANGED cc_final_error
    /\ UNCHANGED <<m_state, cc_on_complete, cc_result, cc_file_idx,
                   cc_bytes_remaining, cc_chunk_id, cc_closed>>
    /\ UNCHANGED <<inputVars, netVars, serverVars>>
    /\ UNCHANGED clientCtlVars
    /\ UNCHANGED <<ptVars, nameVars, discVars, localVars>>
    /\ UNCHANGED engineVars

\* transfer_file lines 307-317: open the source file
ClientOpenFile ==
    /\ cc_pc = "open"
    /\ \/ /\ cc_pc' = "chunk"
          /\ cc_bytes_remaining' = files[cc_file_idx]
          /\ cc_chunk_id' = 0
          /\ UNCHANGED cc_final_error
       \/ /\ ClientFail(TELEPORT_ERROR_FILE_OPEN)
          /\ UNCHANGED <<cc_bytes_remaining, cc_chunk_id>>
    /\ UNCHANGED <<m_state, cc_on_complete, cc_result, cc_file_idx, cc_closed>>
    /\ UNCHANGED <<inputVars, netVars, serverVars>>
    /\ UNCHANGED clientCtlVars
    /\ UNCHANGED <<ptVars, nameVars, discVars, localVars>>
    /\ UNCHANGED engineVars

\* transfer_file lines 319-332: the loop condition and, under
\* m_control_mutex, the pause wait and the cancel test
ClientChunkCheck ==
    /\ cc_pc = "chunk"
    /\ \/ /\ cc_bytes_remaining = 0
          /\ cc_pc' = "file"
          /\ cc_file_idx' = cc_file_idx + 1
          /\ UNCHANGED <<m_state, cc_final_error>>
       \/ /\ cc_bytes_remaining > 0
          /\ m_pause_requested /\ ~m_cancel_requested
          /\ m_state' = "Paused"
          /\ cc_pc' = "paused_wait"
          /\ UNCHANGED <<cc_final_error, cc_file_idx>>
       \/ /\ cc_bytes_remaining > 0
          /\ ~(m_pause_requested /\ ~m_cancel_requested)
          /\ m_state' = "Transferring"
          /\ IF m_cancel_requested
             THEN ClientFail(TELEPORT_ERROR_CANCELLED)
             ELSE cc_pc' = "send" /\ UNCHANGED cc_final_error
          /\ UNCHANGED cc_file_idx
    /\ UNCHANGED <<cc_on_complete, cc_result, cc_bytes_remaining, cc_chunk_id,
                   cc_closed>>
    /\ UNCHANGED <<inputVars, netVars, serverVars>>
    /\ UNCHANGED clientCtlVars
    /\ UNCHANGED <<ptVars, nameVars, discVars, localVars>>
    /\ UNCHANGED engineVars

\* transfer_file lines 334-369: read one chunk of the source, send its
\* header and data, count the bytes
ClientSendChunk ==
    /\ cc_pc = "send"
    /\ \/ /\ LET to_read == Min(ChunkSize, cc_bytes_remaining)
                 header == [MakeMsg("CHUNK") EXCEPT
                              !.file_id = cc_file_idx - 1,
                              !.chunk_id = cc_chunk_id,
                              !.offset = files[cc_file_idx] - cc_bytes_remaining,
                              !.size = to_read]
             IN /\ c2s' = Append(c2s, header)
                /\ cc_chunk_id' = cc_chunk_id + 1
                /\ cc_bytes_remaining' = cc_bytes_remaining - to_read
          /\ cc_pc' = "chunk"
          /\ UNCHANGED cc_final_error
       \/ \* in_file->read fails
          /\ ClientFail(TELEPORT_ERROR_FILE_READ)
          /\ UNCHANGED <<c2s, cc_bytes_remaining, cc_chunk_id>>
       \/ \* send_all fails once the peer has closed the connection
          /\ cs_closed
          /\ ClientFail(TELEPORT_ERROR_SOCKET_SEND)
          /\ UNCHANGED <<c2s, cc_bytes_remaining, cc_chunk_id>>
    /\ UNCHANGED <<m_state, cc_on_complete, cc_result, cc_file_idx, cc_closed>>
    /\ UNCHANGED <<c2s_rd, s2c, s2c_rd>>
    /\ UNCHANGED <<inputVars, serverVars>>
    /\ UNCHANGED clientCtlVars
    /\ UNCHANGED <<ptVars, nameVars, discVars, localVars>>
    /\ UNCHANGED engineVars

\* send_files lines 113-123: read the completion ack, then state Complete
ClientReadComplete ==
    /\ cc_pc = "complete"
    /\ \/ /\ ClientReadFails
          /\ m_state' = "Complete"
          /\ cc_pc' = "cleanup"
          /\ UNCHANGED <<s2c_rd, cc_final_error>>
       \/ /\ ClientCanRead
          /\ s2c_rd' = s2c_rd + 1
          /\ LET m == ClientHead IN
             IF m.type = "COMPLETE" /\ FromJsonThrows(m)
             THEN /\ ClientFail(ClientCatch(m))
                  /\ UNCHANGED m_state
             ELSE /\ m_state' = "Complete"
                  /\ cc_pc' = "cleanup"
                  /\ UNCHANGED cc_final_error
    /\ UNCHANGED <<cc_on_complete, cc_result, cc_file_idx,
                   cc_bytes_remaining, cc_chunk_id, cc_closed>>
    /\ UNCHANGED <<c2s, c2s_rd, s2c>>
    /\ UNCHANGED <<inputVars, serverVars>>
    /\ UNCHANGED clientCtlVars
    /\ UNCHANGED <<ptVars, nameVars, discVars, localVars>>
    /\ UNCHANGED engineVars

\* send_files lines 143-159: the cleanup label
ClientCleanup ==
    /\ cc_pc = "cleanup"
    /\ cc_closed' = TRUE
    /\ cc_on_complete' = Append(cc_on_complete, cc_final_error)
    /\ m_state' = "Idle"
    /\ cc_result' = Append(cc_result, cc_final_error)
    /\ cc_pc' = "returned"
    /\ UNCHANGED <<cc_final_error, cc_file_idx, cc_bytes_remaining, cc_chunk_id>>
    /\ UNCHANGED <<inputVars, netVars, serverVars>>
    /\ UNCHANGED clientCtlVars
    /\ UNCHANGED <<ptVars, nameVars, discVars, localVars>>
    /\ UNCHANGED engineVars

(* ------------------------------------------------------------------ *)
(* ControlClient::pause / resume / cancel                             *)
(* ------------------------------------------------------------------ *)
\* number of chunk frames the sender has written on the control connection
ChunksSent == Cardinality({i \in 1..Len(c2s) : c2s[i].type = "CHUNK"})

\* a call made during the transfer by a thread other than the one running
\* send_files, with the session's state, position and number of chunks sent
\* when it is made; each of pause(), resume() and cancel() is called at most
\* once in a session
ClientCall(op) ==
    /\ m_state \in {"Transferring", "Paused"}
    /\ \A k \in 1..Len(cc_calls) : cc_calls[k].op # op
    /\ cc_calls' = Append(cc_calls, [op |-> op, state |-> m_state,
                                     pc |-> cc_pc, sent |-> ChunksSent])

\* m_control_cv.notify_all(): the loop, if it waits, tests its condition again
NotifyControlCv == IF cc_pc = "paused_wait" THEN "chunk" ELSE cc_pc

\* pause(), lines 391-396
ClientPause ==
    /\ ClientCall("pause")
    /\ m_pause_requested' = TRUE
    /\ UNCHANGED <<cc_pc, m_state, cc_final_error, cc_on_complete, cc_result,
                   cc_file_idx, cc_bytes_remaining, cc_chunk_id, cc_closed,
                   m_cancel_requested>>
    /\ UNCHANGED <<inputVars, netVars, serverVars>>
    /\ UNCHANGED <<ptVars, nameVars, discVars, localVars>>
    /\ UNCHANGED engineVars

\* resume(), lines 398-406
ClientResume ==
    /\ ClientCall("resume")
    /\ m_pause_requested' = FALSE
    /\ cc_pc' = NotifyControlCv
    /\ UNCHANGED <<m_state, cc_final_error, cc_on_complete, cc_result,
                   cc_file_idx, cc_bytes_remaining, cc_chunk_id, cc_closed,
                   m_cancel_requested>>
    /\ UNCHANGED <<inputVars, netVars, serverVars>>
    /\ UNCHANGED <<ptVars, nameVars, discVars, localVars>>
    /\ UNCHANGED engineVars

\* the flags of cancel() set, nobody notified
ClientCancel_NoNotify ==
    /\ ClientCall("cancel")
    /\ m_cancel_requested' = TRUE
    /\ m_pause_requested' = FALSE
    /\ UNCHANGED <<cc_pc, m_state, cc_final_error, cc_on_complete, cc_result,
                   cc_file_idx, cc_bytes_remaining, cc_chunk_id, cc_closed>>
    /\ UNCHANGED <<inputVars, netVars, serverVars>>
    /\ UNCHANGED <<ptVars, nameVars, discVars, localVars>>
    /\ UNCHANGED engineVars

\* cancel(), lines 408-417
ClientCancel ==
    /\ ClientCall("cancel")
    /\ m_cancel_requested' = TRUE
    /\ m_pause_requested' = FALSE
    /\ cc_pc' = NotifyControlCv
    /\ UNCHANGED <<m_state, cc_final_error, cc_on_complete, cc_result,
                   cc_file_idx, cc_bytes_remaining, cc_chunk_id, cc_closed>>
    /\ UNCHANGED <<inputVars, netVars, serverVars>>
    /\ UNCHANGED <<ptVars, nameVars, discVars, localVars>>
    /\ UNCHANGED engineVars

(* ------------------------------------------------------------------ *)
(* ControlServer::handle_connection                                   *)
(* ------------------------------------------------------------------ *)
\* leave for the cleanup label with an error
ServerFail(err) ==
    /\ cs_final_error' = err
    /\ cs_pc' = "cleanup"

VersionMatches_Always(m) == TRUE

\* perform_handshake line 236: the protocol version check
VersionMatches(m) == m.ver = TELEPORT_PROTOCOL_VERSION

IncomingAccepted_DefaultTrue == on_incoming # "reject"

\* line 173: m_on_incoming ? m_on_incoming(transfer) : false
IncomingAccepted == on_incoming = "accept"


\* perform_handshake (lines 219-264) and its caller, lines 133-140
ServerPerformHandshake ==
    /\ cs_pc = "handshake"
    /\ \/ /\ ServerReadFails
          /\ ServerFail(TELEPORT_ERROR_SOCKET_RECV)
          /\ UNCHANGED <<c2s_rd, s2c>>
       \/ /\ ServerCanRead
          /\ c2s_rd' = c2s_rd + 1
          /\ LET m == ServerHead IN
             IF m.type # "HANDSHAKE"
             THEN /\ ServerFail(TELEPORT_ERROR_PROTOCOL)
                  /\ UNCHANGED s2c
             ELSE IF FromJsonThrows(m)
             THEN /\ ServerFail(ServerCatch(m))
                  /\ UNCHANGED s2c
             ELSE IF ~VersionMatches(m)
             THEN /\ s2c' = Append(s2c, [MakeMsg("ERROR") EXCEPT
                                           !.code = TELEPORT_ERROR_PROTOCOL,
                                           !.flag = TRUE])
                  /\ ServerFail(TELEPORT_ERROR_PROTOCOL)
             ELSE /\ s2c' = Append(s2c, [MakeMsg("HANDSHAKE_ACK") EXCEPT
                                           !.ver = TELEPORT_PROTOCOL_VERSION])
                  /\ cs_pc' = "file_list"
                  /\ UNCHANGED cs_final_error
    /\ UNCHANGED <<cs_on_complete, cs_files, cs_accepted, cs_cb_calls,
                   cs_file_idx, cs_bytes_remaining, cs_created, cs_disk,
                   cs_closed>>
    /\ UNCHANGED <<c2s, s2c_rd>>
    /\ UNCHANGED <<inputVars, clientVars>>
    /\ UNCHANGED <<ptVars, nameVars, discVars, localVars>>
    /\ UNCHANGED engineVars

\* lines 142-170: read FILE_LIST and build the IncomingTransfer
ServerRecvFileList ==
    /\ cs_pc = "file_list"
    /\ \/ /\ ServerReadFails
          /\ ServerFail(TELEPORT_ERROR_PROTOCOL)
          /\ UNCHANGED <<c2s_rd, cs_files>>
       \/ /\ ServerCanRead
          /\ c2s_rd' = c2s_rd + 1
          /\ LET m == ServerHead IN
             IF m.type # "FILE_LIST"
             THEN /\ ServerFail(TELEPORT_ERROR_PROTOCOL)
                  /\ UNCHANGED cs_files
             ELSE IF FromJsonThrows(m)
             THEN /\ ServerFail(ServerCatch(m))
                  /\ UNCHANGED cs_files
             ELSE /\ cs_files' = m.list
                  /\ cs_pc' = "incoming"
                  /\ UNCHANGED cs_final_error
    /\ UNCHANGED <<cs_on_complete, cs_accepted, cs_cb_calls, cs_file_idx,
                   cs_bytes_remaining, cs_created, cs_disk, cs_closed>>
    /\ UNCHANGED <<c2s, s2c, s2c_rd>>
    /\ UNCHANGED <<inputVars, clientVars>>
    /\ UNCHANGED <<ptVars, nameVars, discVars, localVars>>
    /\ UNCHANGED engineVars

\* line 173: accepted = m_on_incoming ? m_on_incoming(transfer) : false
ServerAskIncoming ==
    /\ cs_pc = "incoming"
    /\ cs_accepted' = IncomingAccepted
    /\ cs_cb_calls' = IF on_incoming = "none" THEN cs_cb_calls
                      ELSE cs_cb_calls + 1
    /\ cs_pc' = "answer"
    /\ UNCHANGED <<cs_final_error, cs_on_complete, cs_files, cs_file_idx,
                   cs_bytes_remaining, cs_created, cs_disk, cs_closed>>
    /\ UNCHANGED <<inputVars, netVars, clientVars>>
    /\ UNCHANGED <<ptVars, nameVars, discVars, localVars>>
    /\ UNCHANGED engineVars

\* lines 175-196: write REJECT or ACCEPT
ServerAnswer ==
    /\ cs_pc = "answer"
    /\ IF ~cs_accepted
       THEN /\ s2c' = Append(s2c, MakeMsg("REJECT"))
            /\ ServerFail(TELEPORT_ERROR_REJECTED)
       ELSE /\ s2c' = Append(s2c, [MakeMsg("ACCEPT") EXCEPT !.flag = TRUE])
            /\ cs_pc' = "start"
            /\ UNCHANGED cs_final_error
    /\ UNCHANGED <<cs_on_complete, cs_files, cs_accepted, cs_cb_calls,
                   cs_file_idx, cs_bytes_remaining, cs_created, cs_disk,
                   cs_closed>>
    /\ UNCHANGED <<c2s, c2s_rd, s2c_rd>>
    /\ UNCHANGED <<inputVars, clientVars>>
    /\ UNCHANGED <<ptVars, nameVars, discVars, localVars>>
    /\ UNCHANGED engineVars

\* receive_files lines 274-291: wait for START
ServerRecvStart ==
    /\ cs_pc = "start"
    /\ \/ /\ ServerReadFails
          /\ ServerFail(TELEPORT_ERROR_SOCKET_RECV)
          /\ UNCHANGED <<c2s_rd, cs_file_idx>>
       \/ /\ ServerCanRead
          /\ c2s_rd' = c2s_rd + 1
          /\ IF ServerHead.type # "START"
             THEN /\ ServerFail(TELEPORT_ERROR_PROTOCOL)
                  /\ UNCHANGED cs_file_idx
             ELSE /\ cs_pc' = "file"
                  /\ cs_file_idx' = 1
                  /\ UNCHANGED cs_final_error
    /\ UNCHANGED <<cs_on_complete, cs_files, cs_accepted, cs_cb_calls,
                   cs_bytes_remaining, cs_created, cs_disk, cs_closed>>
    /\ UNCHANGED <<c2s, s2c, s2c_rd>>
    /\ UNCHANGED <<inputVars, clientVars>>
    /\ UNCHANGED <<ptVars, nameVars, discVars, localVars>>
    /\ UNCHANGED engineVars

\* receive_files lines 293-316: next file of the list, open it for writing
\* (FileMode::Write creates and truncates)
ServerOpenFile ==
    /\ cs_pc = "file"
    /\ \/ /\ cs_file_idx > Len(cs_files)
          /\ cs_pc' = "complete"
          /\ UNCHANGED <<cs_final_error, cs_bytes_remaining, cs_created, cs_disk>>
       \/ /\ cs_file_idx <= Len(cs_files)
          /\ cs_created' = cs_created \cup {cs_file_idx}
          /\ cs_disk' = [cs_disk EXCEPT ![cs_file_idx] = <<>>]
          /\ cs_bytes_remaining' = cs_files[cs_file_idx]
          /\ cs_pc' = "chunk"
          /\ UNCHANGED cs_final_error
       \/ /\ cs_file_idx <= Len(cs_files)
          /\ ServerFail(TELEPORT_ERROR_FILE_OPEN)
          /\ UNCHANGED <<cs_bytes_remaining, cs_created, cs_disk>>
    /\ UNCHANGED <<cs_on_complete, cs_files, cs_accepted, cs_cb_calls,
                   cs_file_idx, cs_closed>>
    /\ UNCHANGED <<inputVars, netVars, clientVars>>
    /\ UNCHANGED <<ptVars, nameVars, discVars, localVars>>
    /\ UNCHANGED engineVars

\* the bytes of a chunk frame, each named by its offset in the source file
ChunkBytes(m, n) == [i \in 1..n |-> m.offset + i - 1]

\* receive_files lines 318-363: one iteration of the chunk loop
ServerRecvChunk ==
    /\ cs_pc = "chunk"
    /\ \/ /\ cs_bytes_remaining = 0
          /\ cs_pc' = "file"
          /\ cs_file_idx' = cs_file_idx + 1
          /\ UNCHANGED <<c2s_rd, cs_final_error, cs_bytes_remaining, cs_disk>>
       \/ /\ cs_bytes_remaining > 0
          /\ ServerReadFails
          /\ ServerFail(TELEPORT_ERROR_SOCKET_RECV)
          /\ UNCHANGED <<c2s_rd, cs_file_idx, cs_bytes_remaining, cs_disk>>
       \/ /\ cs_bytes_remaining > 0
          /\ ServerCanRead
          /\ c2s_rd' = c2s_rd + 1
          /\ LET chunk == ServerHead
                 to_read == Min(chunk.size, ChunkSize)
             IN IF chunk.file_id # cs_file_idx - 1
                THEN /\ ServerFail(TELEPORT_ERROR_PROTOCOL)
                     /\ UNCHANGED <<cs_bytes_remaining, cs_disk>>
                ELSE \/ /\ cs_disk' = [cs_disk EXCEPT ![cs_file_idx] =
                                         @ \o ChunkBytes(chunk, to_read)]
                        /\ cs_bytes_remaining' = cs_bytes_remaining - to_read
                        /\ UNCHANGED <<cs_pc, cs_final_error>>
                     \/ \* out_file->write fails
                        /\ ServerFail(TELEPORT_ERROR_FILE_WRITE)
                        /\ UNCHANGED <<cs_bytes_remaining, cs_disk>>
          /\ UNCHANGED cs_file_idx
    /\ UNCHANGED <<cs_on_complete, cs_files, cs_accepted, cs_cb_calls,
                   cs_created, cs_closed>>
    /\ UNCHANGED <<c2s, s2c, s2c_rd>>
    /\ UNCHANGED <<inputVars, clientVars>>
    /\ UNCHANGED <<ptVars, nameVars, discVars, localVars>>
    /\ UNCHANGED engineVars

\* receive_files lines 365-375: write COMPLETE{success=true}
ServerSendComplete ==
    /\ cs_pc = "complete"
    /\ s2c' = Append(s2c, [MakeMsg("COMPLETE") EXCEPT !.flag = TRUE])
    /\ cs_pc' = "cleanup"
    /\ UNCHANGED <<cs_final_error, cs_on_complete, cs_files, cs_accepted,
                   cs_cb_calls, cs_file_idx, cs_bytes_remaining, cs_created,
                   cs_disk, cs_closed>>
    /\ UNCHANGED <<c2s, c2s_rd, s2c_rd>>
    /\ UNCHANGED <<inputVars, clientVars>>
    /\ UNCHANGED <<ptVars, nameVars, discVars, localVars>>
    /\ UNCHANGED engineVars

\* lines 211-216: the cleanup label
ServerCleanup ==
    /\ cs_pc = "cleanup"
    /\ cs_closed' = TRUE
    /\ cs_on_complete' = Append(cs_on_complete, cs_final_error)
    /\ cs_pc' = "done"
    /\ UNCHANGED <<cs_final_error, cs_files, cs_accepted, cs_cb_calls,
                   cs_file_idx, cs_bytes_remaining, cs_created, cs_disk>>
    /\ UNCHANGED <<inputVars, netVars, clientVars>>
    /\ UNCHANGED <<ptVars, nameVars, discVars, localVars>>
    /\ UNCHANGED engineVars


(* ------------------------------------------------------------------ *)
(* ParallelTransfer: connect / accept                                 *)
(* ------------------------------------------------------------------ *)
\* connect() on the sender and accept() on the receiver: all N streams are
\* established and both objects are running
PTConnect ==
    /\ ps_pc = "idle"
    /\ pr_pc = "idle"
    /\ ps_running' = TRUE
    /\ pr_running' = TRUE
    /\ ps_pc' = "connected"
    /\ pr_pc' = "connected"
    /\ UNCHANGED <<ps_cancelled, m_work_queue, ps_wpc, ps_work, ps_result,
                   ps_errors>>
    /\ UNCHANGED <<pr_cancelled, pr_wpc, pr_header, m_tracker, pr_local,
                   m_output_file, m_file_mutex, pr_written, pr_result>>
    /\ UNCHANGED <<ptInputVars, ptStreamVars, sessionVars,
                 nameVars, discVars, localVars>>
    /\ UNCHANGED ptCtlVars
    /\ UNCHANGED pr_errors

(* ------------------------------------------------------------------ *)
(* ParallelTransfer::send_file and sender_worker                      *)
(* ------------------------------------------------------------------ *)
\* a ParallelWork.size that is chunk_size for every chunk
WorkSize_NoMin(size, chunk_id) == ChunkSize

\* ParallelWork.size of a chunk: min(chunk_size, file_size - offset)
WorkSize(size, chunk_id) == Min(ChunkSize, size - chunk_id * ChunkSize)

RECURSIVE QueueFrom(_, _, _)
QueueFrom(chunk_id, total, skip) ==
    IF chunk_id >= total THEN <<>>
    ELSE IF chunk_id \in skip THEN QueueFrom(chunk_id + 1, total, skip)
    ELSE <<chunk_id>> \o QueueFrom(chunk_id + 1, total, skip)

QueueChunks_NoSkip(size, skip) == QueueFrom(0, TotalChunks(size), {})

\* send_file lines 120-138: the chunk ids pushed on the work queue
QueueChunks(size, skip) == QueueFrom(0, TotalChunks(size), skip)

\* send_file lines 83-144: open the file, fill the queue, start the workers
SendFileBegin ==
    /\ ps_pc = "connected"
    /\ m_work_queue' = m_work_queue \o QueueChunks(pt_file_size, pt_skip)
    /\ ps_wpc' = [i \in Streams |-> "loop"]
    /\ ps_pc' = "sending"
    /\ UNCHANGED <<ps_running, ps_cancelled, ps_work, ps_result, ps_errors>>
    /\ UNCHANGED <<ptInputVars, ptStreamVars, ptReceiverVars, sessionVars,
                 nameVars, discVars, localVars>>
    /\ UNCHANGED ptCtlVars

\* the frame of a work item: header (file-relative chunk id, offset, size)
\* followed by size data bytes
FrameOf(chunk_id) ==
    [chunk_id |-> chunk_id,
     offset |-> chunk_id * ChunkSize,
     size |-> WorkSize(pt_file_size, chunk_id)]

\* sender_worker lines 258-259: front() then pop()
QueuePop(q) == Tail(q)

\* sender_worker lines 240-280: loop condition, pause test, take work, read
\* the chunk.  A worker woken from m_pause_cv.wait tests the pause condition
\* again and goes on from line 249.
SenderGetWork(i) ==
    /\ ps_pc = "sending"
    /\ ps_wpc[i] \in {"loop", "woken"}
    /\ \/ /\ ~ps_running \/ ps_cancelled
          /\ ps_wpc' = [ps_wpc EXCEPT ![i] = "done"]
          /\ UNCHANGED <<m_work_queue, ps_work, ps_errors>>
       \/ \* m_paused seen set under m_pause_mutex: the worker is about to
          \* call m_pause_cv.wait
          /\ ps_running /\ ~ps_cancelled /\ ps_paused
          /\ ps_wpc' = [ps_wpc EXCEPT ![i] = "wait_enter"]
          /\ UNCHANGED <<m_work_queue, ps_work, ps_errors>>
       \/ /\ ps_running /\ ~ps_cancelled /\ ~ps_paused
          /\ m_work_queue = <<>>
          /\ ps_wpc' = [ps_wpc EXCEPT ![i] = "done"]
          /\ UNCHANGED <<m_work_queue, ps_work, ps_errors>>
       \/ /\ ps_running /\ ~ps_cancelled /\ ~ps_paused
          /\ m_work_queue # <<>>
          /\ m_work_queue' = QueuePop(m_work_queue)
          /\ ps_work' = [ps_work EXCEPT ![i] = Head(m_work_queue)]
          /\ \/ /\ ps_wpc' = [ps_wpc EXCEPT ![i] = "send"]
                /\ UNCHANGED ps_errors
             \/ \* open_file or read fails: error callback, continue
                /\ ps_errors < 1
                /\ ps_errors' = ps_errors + 1
                /\ ps_wpc' = [ps_wpc EXCEPT ![i] = "loop"]
    /\ UNCHANGED <<ps_pc, ps_running, ps_cancelled, ps_result>>
    /\ UNCHANGED <<ptInputVars, ptStreamVars, ptReceiverVars, sessionVars,
                 nameVars, discVars, localVars>>
    /\ UNCHANGED ptCtlVars

\* sender_worker line 245: m_pause_cv.wait releases m_pause_mutex and blocks
\* the worker until a notify_all
SenderWait(i) ==
    /\ ps_pc = "sending"
    /\ ps_wpc[i] = "wait_enter"
    /\ ps_wpc' = [ps_wpc EXCEPT ![i] = "waiting"]
    /\ UNCHANGED <<ps_pc, ps_running, ps_cancelled, m_work_queue, ps_work,
                   ps_result, ps_errors>>
    /\ UNCHANGED <<ptInputVars, ptStreamVars, ptReceiverVars, sessionVars,
                 nameVars, discVars, localVars>>
    /\ UNCHANGED ptCtlVars

\* sender_worker lines 282-311: send header and data on the worker's stream
SenderSend(i) ==
    /\ ps_pc = "sending"
    /\ ps_wpc[i] = "send"
    /\ \/ /\ pt_stream' = [pt_stream EXCEPT ![i] = Append(@, FrameOf(ps_work[i]))]
          /\ ps_wpc' = [ps_wpc EXCEPT ![i] = "loop"]
          /\ UNCHANGED <<ps_cancelled, ps_errors>>
       \/ \* send_all fails: error callback, m_cancelled, break
          /\ ps_errors < 1
          /\ ps_errors' = ps_errors + 1
          /\ ps_cancelled' = TRUE
          /\ ps_wpc' = [ps_wpc EXCEPT ![i] = "done"]
          /\ UNCHANGED pt_stream
    /\ UNCHANGED <<ps_pc, ps_running, m_work_queue, ps_work, ps_result>>
    /\ UNCHANGED <<ptInputVars, pt_rd, ptReceiverVars, sessionVars,
                 nameVars, discVars, localVars>>
    /\ UNCHANGED ptCtlVars

\* send_file lines 146-159: join the workers, result from m_cancelled
SendFileReturn ==
    /\ ps_pc = "sending"
    /\ \A i \in Streams : ps_wpc[i] = "done"
    /\ ps_result' = Append(ps_result,
                           IF ps_cancelled THEN TELEPORT_ERROR_CANCELLED
                           ELSE TELEPORT_OK)
    /\ ps_pc' = "returned"
    /\ UNCHANGED <<ps_running, ps_cancelled, m_work_queue, ps_wpc, ps_work,
                   ps_errors>>
    /\ UNCHANGED <<ptInputVars, ptStreamVars, ptReceiverVars, sessionVars,
                 nameVars, discVars, localVars>>
    /\ UNCHANGED ptCtlVars

(* ------------------------------------------------------------------ *)
(* ChunkTracker                                                       *)
(* ------------------------------------------------------------------ *)
\* mark_received that counts a chunk id again when its bit is already set
MarkReceived_CountsRepeats(t, chunk_id, total) ==
    IF chunk_id >= total THEN t
    ELSE [m_chunks |-> t.m_chunks \cup {chunk_id},
          m_received |-> t.m_received + 1]

\* mark_received applied to the tracker value t a thread has read
MarkReceived(t, chunk_id, total) ==
    IF chunk_id >= total THEN t
    ELSE IF chunk_id \in t.m_chunks THEN t
    ELSE [m_chunks |-> t.m_chunks \cup {chunk_id},
          m_received |-> t.m_received + 1]

RECURSIVE MarkAll(_, _, _)
MarkAll(t, ids, total) ==
    IF ids = {} THEN t
    ELSE LET c == CHOOSE x \in ids : TRUE
         IN MarkAll(MarkReceived(t, c, total), ids \ {c}, total)

\* is_complete(): m_received >= m_total
IsComplete(t, total) == t.m_received >= total

\* chunk ids given to mark_received: the ids of the largest tracker and ids
\* past its end
MarkIds == 0..MaxTotal

\* mark_received(chunk_id) on a ChunkTracker used by one thread
ChunkTrackerMark(chunk_id) ==
    /\ ct_tracker' = MarkReceived(ct_tracker, chunk_id, ct_total)
    /\ ct_marked' = ct_marked \cup {chunk_id}
    /\ UNCHANGED ct_total
    /\ UNCHANGED <<resumeVars, portVars, sideVars>>
    /\ UNCHANGED <<sessionVars, ptVars, nameVars, discVars>>

\* ChunkTracker(n) for n from 0 up to MaxTotal - 1
TrackerInit ==
    /\ ct_total \in 0..(MaxTotal - 1)
    /\ ct_tracker = NewTracker /\ ct_marked = {}
    /\ ResumeIdle /\ PortIdle /\ SideIdle
    /\ NamesIdle /\ DiscoveryConstructed
    /\ pt_file_size = 0 /\ pt_skip = {} /\ pt_existing = {}
    /\ PTConstructed
    /\ SessionIdle

TrackerNext == \E chunk_id \in MarkIds : ChunkTrackerMark(chunk_id)

TrackerSpec == TrackerInit /\ [][TrackerNext]_vars

(* ------------------------------------------------------------------ *)
(* ParallelTransfer::receive_file and receiver_worker                 *)
(* ------------------------------------------------------------------ *)
\* a byte of the output file that no write has set
Hole == -1

\* positions of the output file the model keeps
FilePositions == 0..(2 * PTMaxFileSize + ChunkSize)

\* receive_file lines 168-213: seed the tracker, open and pre-size the
\* output file (FileMode::Write truncates), start the workers
ReceiveFileBegin ==
    /\ pr_pc = "connected"
    /\ m_tracker' = MarkAll(NewTracker, pt_existing, TotalChunks(pt_file_size))
    /\ m_output_file' = [content |-> [p \in FilePositions |-> Hole],
                         m_position |-> 0]
    /\ pr_wpc' = [i \in Streams |-> "loop"]
    /\ pr_pc' = "receiving"
    /\ UNCHANGED <<pr_running, pr_cancelled, pr_header, pr_local, m_file_mutex,
                   pr_written, pr_result>>
    /\ UNCHANGED <<ptInputVars, ptStreamVars, ptSenderVars, sessionVars,
                 nameVars, discVars, localVars>>
    /\ UNCHANGED pr_errors

\* receiver_worker lines 323-332: the loop condition
ReceiverLoop(i) ==
    /\ pr_pc = "receiving"
    /\ pr_wpc[i] = "loop"
    /\ pr_wpc' = [pr_wpc EXCEPT ![i] =
                    IF pr_running /\ ~pr_cancelled THEN "recv" ELSE "done"]
    /\ UNCHANGED <<pr_pc, pr_running, pr_cancelled, pr_header, m_tracker,
                   pr_local, m_output_file, m_file_mutex, pr_written, pr_result>>
    /\ UNCHANGED <<ptInputVars, ptStreamVars, ptSenderVars, sessionVars,
                 nameVars, discVars, localVars>>
    /\ UNCHANGED pr_errors

\* receiver_worker lines 334-352: a header arrives, then its data; or the
\* recv_all of the data fails: error callback, m_cancelled, break
ReceiverRecv(i) ==
    /\ pr_pc = "receiving"
    /\ pr_wpc[i] = "recv"
    /\ pt_rd[i] < Len(pt_stream[i])
    /\ pr_header' = [pr_header EXCEPT ![i] = pt_stream[i][pt_rd[i] + 1]]
    /\ \/ /\ pt_rd' = [pt_rd EXCEPT ![i] = @ + 1]
          /\ pr_wpc' = [pr_wpc EXCEPT ![i] = "lock"]
          /\ UNCHANGED <<pr_cancelled, pr_errors>>
       \/ /\ pr_cancelled' = TRUE
          /\ pr_errors' = pr_errors + 1
          /\ pr_wpc' = [pr_wpc EXCEPT ![i] = "done"]
          /\ UNCHANGED pt_rd
    /\ UNCHANGED <<pr_pc, pr_running, m_tracker, pr_local,
                   m_output_file, m_file_mutex, pr_written, pr_result>>
    /\ UNCHANGED <<ptInputVars, pt_stream, ptSenderVars, sessionVars,
                 nameVars, discVars, localVars>>

\* every chunk of the file is in the output file or was given as existing
AllChunksOnDisk ==
    \A c \in ChunkIds(pt_file_size) : c \in pr_written \cup pt_existing

\* receiver_worker lines 336-340: recv_all of the header fails (the stream
\* is closed or reset with no data left on it): break, m_cancelled untouched.
\* The receive is premature, and counted as failed, when chunks are missing.
ReceiverRecvTimeout(i) ==
    /\ pr_pc = "receiving"
    /\ pr_wpc[i] = "recv"
    /\ pt_rd[i] = Len(pt_stream[i])
    /\ pr_wpc' = [pr_wpc EXCEPT ![i] = "done"]
    /\ pr_errors' = IF AllChunksOnDisk THEN pr_errors ELSE pr_errors + 1
    /\ UNCHANGED <<pr_pc, pr_running, pr_cancelled, pr_header, m_tracker,
                   pr_local, m_output_file, m_file_mutex, pr_written, pr_result>>
    /\ UNCHANGED <<ptInputVars, ptStreamVars, ptSenderVars, sessionVars,
                 nameVars, discVars, localVars>>

FileMutexFree_NoLock == TRUE

\* line 356: std::lock_guard on m_file_mutex can be taken
FileMutexFree == m_file_mutex = 0

\* line 358: offset = chunk_id * chunk_size
SeekOffset(header) == header.chunk_id * ChunkSize

\* receiver_worker lines 355-359: take the file mutex and seek
ReceiverLockSeek(i) ==
    /\ pr_pc = "receiving"
    /\ pr_wpc[i] = "lock"
    /\ FileMutexFree
    /\ m_file_mutex' = i
    /\ m_output_file' = [m_output_file EXCEPT
                           !.m_position = SeekOffset(pr_header[i])]
    /\ pr_wpc' = [pr_wpc EXCEPT ![i] = "write"]
    /\ UNCHANGED <<pr_pc, pr_running, pr_cancelled, pr_header, m_tracker,
                   pr_local, pr_written, pr_result>>
    /\ UNCHANGED <<ptInputVars, ptStreamVars, ptSenderVars, sessionVars,
                 nameVars, discVars, localVars>>
    /\ UNCHANGED pr_errors

\* File::write of the data of a frame at the current position
WriteAt(file, header) ==
    [content |-> [p \in FilePositions |->
                    IF p >= file.m_position /\ p < file.m_position + header.size
                    THEN header.offset + (p - file.m_position)
                    ELSE file.content[p]],
     m_position |-> file.m_position + header.size]

\* receiver_worker lines 361-370: write, release the mutex
ReceiverWrite(i) ==
    /\ pr_pc = "receiving"
    /\ pr_wpc[i] = "write"
    /\ m_file_mutex' = IF m_file_mutex = i THEN 0 ELSE m_file_mutex
    /\ \/ /\ m_output_file' = WriteAt(m_output_file, pr_header[i])
          /\ pr_written' = pr_written \cup {pr_header[i].chunk_id}
          /\ pr_wpc' = [pr_wpc EXCEPT ![i] = "mark"]
          /\ UNCHANGED <<pr_cancelled, pr_errors>>
       \/ \* write fails: error callback, m_cancelled, break
          /\ pr_cancelled' = TRUE
          /\ pr_errors' = pr_errors + 1
          /\ pr_wpc' = [pr_wpc EXCEPT ![i] = "done"]
          /\ UNCHANGED <<m_output_file, pr_written>>
    /\ UNCHANGED <<pr_pc, pr_running, pr_header, m_tracker, pr_local, pr_result>>
    /\ UNCHANGED <<ptInputVars, ptStreamVars, ptSenderVars, sessionVars,
                 nameVars, discVars, localVars>>

\* mark_received lines 42-45, called without a lock: the worker reads the
\* tracker's byte and counter
ReceiverMarkRead(i) ==
    /\ pr_pc = "receiving"
    /\ pr_wpc[i] = "mark"
    /\ pr_local' = [pr_local EXCEPT ![i] = m_tracker]
    /\ pr_wpc' = [pr_wpc EXCEPT ![i] = "mark_store"]
    /\ UNCHANGED <<pr_pc, pr_running, pr_cancelled, pr_header, m_tracker,
                   m_output_file, m_file_mutex, pr_written, pr_result>>
    /\ UNCHANGED <<ptInputVars, ptStreamVars, ptSenderVars, sessionVars,
                 nameVars, discVars, localVars>>
    /\ UNCHANGED pr_errors

\* mark_received lines 46-47 and receiver_worker lines 376-382: the worker
\* stores the byte and counter it computed, then tests is_complete
ReceiverMarkStore(i) ==
    /\ pr_pc = "receiving"
    /\ pr_wpc[i] = "mark_store"
    /\ LET total == TotalChunks(pt_file_size)
           t == MarkReceived(pr_local[i], pr_header[i].chunk_id, total)
       IN /\ m_tracker' = t
          /\ pr_running' = IF IsComplete(t, total) THEN FALSE ELSE pr_running
    /\ pr_local' = [pr_local EXCEPT ![i] = NewTracker]
    /\ pr_wpc' = [pr_wpc EXCEPT ![i] = "loop"]
    /\ UNCHANGED <<pr_pc, pr_cancelled, pr_header, m_output_file, m_file_mutex,
                   pr_written, pr_result>>
    /\ UNCHANGED <<ptInputVars, ptStreamVars, ptSenderVars, sessionVars,
                 nameVars, discVars, localVars>>
    /\ UNCHANGED pr_errors

\* receive_file lines 215-231: join the workers, result from m_cancelled
ReceiveFileReturn ==
    /\ pr_pc = "receiving"
    /\ \A i \in Streams : pr_wpc[i] = "done"
    /\ pr_result' = Append(pr_result,
                           IF pr_cancelled THEN TELEPORT_ERROR_CANCELLED
                           ELSE TELEPORT_OK)
    /\ pr_pc' = "returned"
    /\ UNCHANGED <<pr_running, pr_cancelled, pr_wpc, pr_header, m_tracker,
                   pr_local, m_output_file, m_file_mutex, pr_written>>
    /\ UNCHANGED <<ptInputVars, ptStreamVars, ptSenderVars, sessionVars,
                 nameVars, discVars, localVars>>
    /\ UNCHANGED pr_errors

PTNext ==
    \/ PTConnect
    \/ SendFileBegin
    \/ \E i \in Streams : SenderGetWork(i)
    \/ \E i \in Streams : SenderSend(i)
    \/ SendFileReturn
    \/ ReceiveFileBegin
    \/ \E i \in Streams : ReceiverLoop(i)
    \/ \E i \in Streams : ReceiverRecv(i)
    \/ \E i \in Streams : ReceiverRecvTimeout(i)
    \/ \E i \in Streams : ReceiverLockSeek(i)
    \/ \E i \in Streams : ReceiverWrite(i)
    \/ \E i \in Streams : ReceiverMarkRead(i)
    \/ \E i \in Streams : ReceiverMarkStore(i)
    \/ ReceiveFileReturn

PTSpec == PTInit /\ [][PTNext]_vars

(* ------------------------------------------------------------------ *)
(* ParallelTransfer::pause / resume / cancel                          *)
(* ------------------------------------------------------------------ *)
\* a call on the sending object made while send_file runs, with the number
\* of frames each stream carried and where each worker was when it is made;
\* each of pause(), resume() and cancel() is called at most once
PTCall(op) ==
    /\ ps_pc = "sending"
    /\ \A k \in 1..Len(ps_calls) : ps_calls[k].op # op
    /\ ps_calls' = Append(ps_calls,
                          [op |-> op,
                           sent |-> [i \in Streams |-> Len(pt_stream[i])],
                           wpc |-> ps_wpc])

\* m_pause_cv.notify_all(): the workers blocked in wait are woken
NotifyPauseCv == [i \in Streams |->
                    IF ps_wpc[i] = "waiting" THEN "woken" ELSE ps_wpc[i]]

\* pause(), lines 418-421
PTPause ==
    /\ PTCall("pause")
    /\ ps_paused' = TRUE
    /\ UNCHANGED <<ps_pc, ps_running, ps_cancelled, m_work_queue, ps_wpc,
                   ps_work, ps_result, ps_errors>>
    /\ UNCHANGED <<ptInputVars, ptStreamVars, ptReceiverVars, sessionVars,
                 nameVars, discVars, localVars>>

\* resume(), lines 423-427: the flag is stored and the condition variable
\* notified without m_pause_mutex
PTResume ==
    /\ PTCall("resume")
    /\ ps_paused' = FALSE
    /\ ps_wpc' = NotifyPauseCv
    /\ UNCHANGED <<ps_pc, ps_running, ps_cancelled, m_work_queue,
                   ps_work, ps_result, ps_errors>>
    /\ UNCHANGED <<ptInputVars, ptStreamVars, ptReceiverVars, sessionVars,
                 nameVars, discVars, localVars>>

\* cancel(), lines 429-436
PTCancel ==
    /\ PTCall("cancel")
    /\ ps_cancelled' = TRUE
    /\ ps_paused' = FALSE
    /\ ps_running' = FALSE
    /\ ps_wpc' = NotifyPauseCv
    /\ UNCHANGED <<ps_pc, m_work_queue, ps_work, ps_result, ps_errors>>
    /\ UNCHANGED <<ptInputVars, ptStreamVars, ptReceiverVars, sessionVars,
                 nameVars, discVars, localVars>>

\* send_file of one file while other threads call pause(), resume() and
\* cancel() on the sending object; the frames sent stay on the streams
PTCtlInit ==
    /\ PTInit
    /\ pt_existing = {}

PTCtlNext ==
    \/ PTConnect
    \/ SendFileBegin
    \/ \E i \in Streams : SenderGetWork(i)
    \/ \E i \in Streams : SenderWait(i)
    \/ \E i \in Streams : SenderSend(i)
    \/ SendFileReturn
    \/ PTPause
    \/ PTResume
    \/ PTCancel

PTCtlSpec == PTCtlInit /\ [][PTCtlNext]_vars

(* ------------------------------------------------------------------ *)
(* ParallelTransfer: accepted and connected streams, close            *)
(* ------------------------------------------------------------------ *)
\* recv_all of a header can fail on a stream with no data left: the peer
\* has closed it, or the stream has a receive timeout, which connect() sets
\* (line 28) and accept() does not (lines 62-77)
RecvCanFail == ps_closed \/ pr_role = "connect"

\* receiver_worker lines 336-340 on a stream whose recv_all can fail
ReceiverRecvFails(i) ==
    /\ RecvCanFail
    /\ ReceiverRecvTimeout(i)

\* close() of the sending object once send_file has returned, lines
\* 438-456: cancel(), then the streams are closed
SenderClose ==
    /\ ps_pc = "returned"
    /\ ~ps_closed
    /\ ps_closed' = TRUE
    /\ ps_cancelled' = TRUE
    /\ ps_paused' = FALSE
    /\ ps_running' = FALSE
    /\ UNCHANGED <<pr_role, headerVars, overlapVars, restVars>>
    /\ UNCHANGED <<ps_pc, m_work_queue, ps_wpc, ps_work, ps_result, ps_errors,
                   ps_calls>>
    /\ UNCHANGED <<ptInputVars, ptStreamVars, ptReceiverVars, sessionVars,
                   nameVars, discVars>>
    /\ UNCHANGED <<resumeVars, trackerVars, portVars>>

\* send_file against receive_file where the receiver has taken its streams
\* with accept() or with connect()
PTStreamsInit ==
    /\ pt_file_size \in 0..PTMaxFileSize
    /\ pt_skip \in SUBSET ChunkIds(pt_file_size)
    /\ pt_existing \in {{}, pt_skip}
    /\ PTConstructed
    /\ SessionIdle
    /\ NamesIdle /\ DiscoveryConstructed
    /\ ResumeIdle /\ TrackerIdle /\ PortIdle
    /\ pr_role \in {"accept", "connect"}
    /\ ps_closed = FALSE
    /\ HeaderIdle /\ OverlapIdle /\ RestIdle

PTStreamsNext ==
    \/ PTConnect
    \/ SendFileBegin
    \/ \E i \in Streams : SenderGetWork(i)
    \/ \E i \in Streams : SenderSend(i)
    \/ SendFileReturn
    \/ SenderClose
    \/ ReceiveFileBegin
    \/ \E i \in Streams : ReceiverLoop(i)
    \/ \E i \in Streams : ReceiverRecv(i)
    \/ \E i \in Streams : ReceiverRecvFails(i)
    \/ \E i \in Streams : ReceiverLockSeek(i)
    \/ \E i \in Streams : ReceiverWrite(i)
    \/ \E i \in Streams : ReceiverMarkRead(i)
    \/ \E i \in Streams : ReceiverMarkStore(i)
    \/ ReceiveFileReturn

PTStreamsSpec == PTStreamsInit /\ [][PTStreamsNext]_vars

(* ------------------------------------------------------------------ *)
(* Specifications of the session                                      *)
(* ------------------------------------------------------------------ *)
SessionNext ==
    \/ SendFilesBegin
    \/ ConnectToTargetOk
    \/ ConnectToTargetFail
    \/ ClientSendHandshake
    \/ ClientRecvHandshakeAck
    \/ ClientSendFileList
    \/ ClientWaitForAcceptance
    \/ ClientSendStart
    \/ ClientNextFile
    \/ ClientOpenFile
    \/ ClientChunkCheck
    \/ ClientSendChunk
    \/ ClientReadComplete
    \/ ClientCleanup
    \/ ServerPerformHandshake
    \/ ServerRecvFileList
    \/ ServerAskIncoming
    \/ ServerAnswer
    \/ ServerRecvStart
    \/ ServerOpenFile
    \/ ServerRecvChunk
    \/ ServerSendComplete
    \/ ServerCleanup

SessionSpec == SessionInit /\ [][SessionNext]_vars

SchemaSpec == SchemaInit /\ [][SessionNext]_vars

\* a session of conforming peers that the receiver accepts, during which
\* other threads call pause(), resume() and cancel() on the ControlClient
CtlInit ==
    /\ SessionInit
    /\ files \in {<<s>> : s \in 0..MaxFileSize}
                 \cup {<<MaxFileSize, s>> : s \in 0..MaxFileSize}
    /\ sender_version = TELEPORT_PROTOCOL_VERSION
    /\ on_incoming = "accept"
    /\ resume_store = NoResume

CtlNext ==
    \/ SessionNext
    \/ ClientPause
    \/ ClientResume
    \/ ClientCancel

CtlSpec == CtlInit /\ [][CtlNext]_vars

(* ------------------------------------------------------------------ *)
(* TeleportEngine: teleport_send_files, the transfer handle,          *)
(* teleport_destroy                                                   *)
(* ------------------------------------------------------------------ *)
\* teleport_send_files lines 309-323, after engine->client->send_files has
\* returned: engine->last_error on failure, the handle on success
TeleportSendFilesReturn ==
    /\ cc_pc = "returned"
    /\ cc_pc' = "api_returned"
    /\ out_transfer' = (cc_result = <<TELEPORT_OK>>)
    /\ UNCHANGED <<m_state, cc_final_error, cc_on_complete, cc_result,
                   cc_file_idx, cc_bytes_remaining, cc_chunk_id, cc_closed>>
    /\ UNCHANGED <<inputVars, netVars, serverVars>>
    /\ UNCHANGED <<clientCtlVars, td_pc>>
    /\ UNCHANGED <<ptVars, nameVars, discVars, localVars>>

\* teleport_transfer_pause on the handle
TeleportTransferPause ==
    /\ out_transfer
    /\ td_pc = "none"
    /\ ~m_pause_requested
    /\ m_pause_requested' = TRUE
    /\ UNCHANGED <<cc_pc, m_state, cc_final_error, cc_on_complete, cc_result,
                   cc_file_idx, cc_bytes_remaining, cc_chunk_id, cc_closed,
                   m_cancel_requested, cc_calls>>
    /\ UNCHANGED <<inputVars, netVars, serverVars>>
    /\ UNCHANGED <<ptVars, nameVars, discVars, localVars>>
    /\ UNCHANGED engineVars

\* teleport_transfer_resume on the handle
TeleportTransferResume ==
    /\ out_transfer
    /\ td_pc = "none"
    /\ m_pause_requested
    /\ m_pause_requested' = FALSE
    /\ cc_pc' = NotifyControlCv
    /\ UNCHANGED <<m_state, cc_final_error, cc_on_complete, cc_result,
                   cc_file_idx, cc_bytes_remaining, cc_chunk_id, cc_closed,
                   m_cancel_requested, cc_calls>>
    /\ UNCHANGED <<inputVars, netVars, serverVars>>
    /\ UNCHANGED <<ptVars, nameVars, discVars, localVars>>
    /\ UNCHANGED engineVars

\* teleport_transfer_cancel on the handle
TeleportTransferCancel ==
    /\ out_transfer
    /\ td_pc = "none"
    /\ ~m_cancel_requested
    /\ m_cancel_requested' = TRUE
    /\ m_pause_requested' = FALSE
    /\ cc_pc' = NotifyControlCv
    /\ UNCHANGED <<m_state, cc_final_error, cc_on_complete, cc_result,
                   cc_file_idx, cc_bytes_remaining, cc_chunk_id, cc_closed,
                   cc_calls>>
    /\ UNCHANGED <<inputVars, netVars, serverVars>>
    /\ UNCHANGED <<ptVars, nameVars, discVars, localVars>>
    /\ UNCHANGED engineVars

\* teleport_destroy lines 153-157: read the client's state; cancel() when
\* it is neither Idle nor Complete
TeleportDestroyBegin ==
    /\ td_pc = "none"
    /\ IF m_state \notin {"Idle", "Complete"}
       THEN /\ m_cancel_requested' = TRUE
            /\ m_pause_requested' = FALSE
            /\ cc_pc' = NotifyControlCv
            /\ td_pc' = "wait"
       ELSE /\ td_pc' = "stop"
            /\ UNCHANGED <<m_cancel_requested, m_pause_requested, cc_pc>>
    /\ UNCHANGED <<m_state, cc_final_error, cc_on_complete, cc_result,
                   cc_file_idx, cc_bytes_remaining, cc_chunk_id, cc_closed,
                   cc_calls, out_transfer>>
    /\ UNCHANGED <<inputVars, netVars, serverVars>>
    /\ UNCHANGED <<ptVars, nameVars, discVars, localVars>>

\* teleport_destroy lines 159-171: poll the state every 100 ms until it is
\* Idle or 5 seconds have passed
TeleportDestroyPoll ==
    /\ td_pc = "wait"
    /\ \/ m_state = "Idle"
       \/ m_state # "Idle"     \* waited >= MAX_WAIT_MS
    /\ td_pc' = "stop"
    /\ UNCHANGED <<clientVars, out_transfer>>
    /\ UNCHANGED <<inputVars, netVars, serverVars>>
    /\ UNCHANGED <<ptVars, nameVars, discVars, localVars>>

\* teleport_destroy lines 174-188: stop the engine's own server and
\* discovery (neither is running here), delete the engine; ~ControlClient
\* calls cancel() and closes the socket
TeleportDestroyDelete ==
    /\ td_pc = "stop"
    /\ td_pc' = "returned"
    /\ m_cancel_requested' = TRUE
    /\ m_pause_requested' = FALSE
    /\ cc_pc' = NotifyControlCv
    /\ cc_closed' = TRUE
    /\ UNCHANGED <<m_state, cc_final_error, cc_on_complete, cc_result,
                   cc_file_idx, cc_bytes_remaining, cc_chunk_id,
                   cc_calls, out_transfer>>
    /\ UNCHANGED <<inputVars, netVars, serverVars>>
    /\ UNCHANGED <<ptVars, nameVars, discVars, localVars>>

\* a sender's engine: one thread in teleport_send_files, others using the
\* transfer handle and calling teleport_destroy
EngineNext ==
    \/ SessionNext
    \/ TeleportSendFilesReturn
    \/ TeleportTransferPause
    \/ TeleportTransferResume
    \/ TeleportTransferCancel
    \/ TeleportDestroyBegin
    \/ TeleportDestroyPoll
    \/ TeleportDestroyDelete

EngineSpec == CtlInit /\ [][EngineNext]_vars

(* ------------------------------------------------------------------ *)
(* sanitize_filename and the receive paths                            *)
(* ------------------------------------------------------------------ *)
\* A name is a sequence of bytes; a byte is written as a one-character
\* string, and a control byte (0..31) by its name.
ControlChars == {"NUL", "SOH", "TAB", "LF", "CR", "ESC"}

\* line 43: invalid_chars (the literal ends at its first NUL)
InvalidChars == {"<", ">", ":", "\"", "/", "\\", "|", "?", "*"}

\* lines 45-66: control bytes dropped, separators and invalid characters
\* replaced by '_', every other byte kept
RECURSIVE ReplaceInvalid(_)
ReplaceInvalid(s) ==
    IF s = <<>> THEN <<>>
    ELSE LET c == Head(s) IN
         IF c \in ControlChars THEN ReplaceInvalid(Tail(s))
         ELSE IF c = "/" \/ c = "\\" THEN <<"_">> \o ReplaceInvalid(Tail(s))
         ELSE IF c \in InvalidChars THEN <<"_">> \o ReplaceInvalid(Tail(s))
         ELSE <<c>> \o ReplaceInvalid(Tail(s))

\* lines 69-75: leading dots and spaces removed
RECURSIVE StripLeading(_)
StripLeading(s) ==
    IF s # <<>> /\ (Head(s) = "." \/ Head(s) = " ")
    THEN StripLeading(Tail(s))
    ELSE s

\* lines 78-80: trailing dots and spaces removed
RECURSIVE StripTrailing(_)
StripTrailing(s) ==
    IF s # <<>> /\ (s[Len(s)] = "." \/ s[Len(s)] = " ")
    THEN StripTrailing(SubSeq(s, 1, Len(s) - 1))
    ELSE s

\* ::toupper on the letters the reserved names are made of
ToUpper(c) ==
    CASE c = "a" -> "A" [] c = "c" -> "C" [] c = "l" -> "L" [] c = "m" -> "M"
      [] c = "n" -> "N" [] c = "o" -> "O" [] c = "p" -> "P" [] c = "r" -> "R"
      [] c = "t" -> "T" [] c = "u" -> "U" [] c = "x" -> "X"
      [] OTHER -> c

Upper(s) == [i \in 1..Len(s) |-> ToUpper(s[i])]

\* lines 86-90: reserved[]
ReservedNames ==
    {<<"C", "O", "N">>, <<"P", "R", "N">>, <<"A", "U", "X">>,
     <<"N", "U", "L">>}
    \cup {<<"C", "O", "M", d>> :
             d \in {"1", "2", "3", "4", "5", "6", "7", "8", "9"}}
    \cup {<<"L", "P", "T", d>> :
             d \in {"1", "2", "3", "4", "5", "6", "7", "8", "9"}}

\* std::string::substr(0, n): at most n bytes from the start
Prefix(s, n) == SubSeq(s, 1, IF n < Len(s) THEN n ELSE Len(s))

\* lines 92-97: a reserved device name, alone or before a '.', gets a '_'
\* in front
PrefixReserved(s) ==
    IF \E name \in ReservedNames :
          \/ Upper(s) = name
          \/ Prefix(Upper(s), Len(name) + 1) = name \o <<".">>
    THEN <<"_">> \o s
    ELSE s

\* std::string::rfind('.') as a position from 1, 0 for npos
RFindDot(s) ==
    IF \E i \in 1..Len(s) : s[i] = "."
    THEN CHOOSE i \in 1..Len(s) :
            s[i] = "." /\ \A j \in (i + 1)..Len(s) : s[j] # "."
    ELSE 0

\* lines 100-109: the length limit, keeping a short extension
EnforceMaxLength(s) ==
    IF Len(s) > MaxSanitizedLen
    THEN LET dot_pos == RFindDot(s) IN
         IF dot_pos # 0 /\ Len(s) - (dot_pos - 1) <= MaxExtLen
         THEN LET ext == SubSeq(s, dot_pos, Len(s)) IN
              Prefix(s, MaxSanitizedLen - Len(ext)) \o ext
         ELSE Prefix(s, MaxSanitizedLen)
    ELSE s

Unnamed == <<"u", "n", "n", "a", "m", "e", "d">>

\* sanitize.hpp lines 34-117
sanitize_filename(filename) ==
    IF filename = <<>> THEN Unnamed
    ELSE LET result == EnforceMaxLength(PrefixReserved(
                           StripTrailing(StripLeading(
                               ReplaceInvalid(filename)))))
         IN  IF result = <<>> \/ result = <<".">> \/ result = <<".", ".">>
             THEN Unnamed
             ELSE result

\* m_output_dir / output_dir of the receiver
OutputDir == <<"/", "t", "m", "p", "/", "t">>

\* std::to_string(file.id) for the ids of one FILE_LIST
IdToString(id) == <<CASE id = 0 -> "0" [] id = 1 -> "1" [] id = 2 -> "2"
                    [] OTHER -> "3">>

\* the bytes raw names are drawn from: a letter, the dot, the space, a
\* separator, an invalid character and a control byte
EdgeChars == {"a", ".", " ", "/", "<", "NUL"}

RECURSIVE SeqsUpTo(_, _)
SeqsUpTo(S, n) ==
    IF n = 0 THEN {<<>>}
    ELSE LET shorter == SeqsUpTo(S, n - 1) IN
         shorter \cup {<<c>> \o s : c \in S, s \in {x \in shorter : Len(x) = n - 1}}

Run(c, n) == [i \in 1..n |-> c]

\* names with a body of letters between arbitrary bytes, short and about
\* as long as the length limit
EdgeNames ==
    {h \o Run("a", n) \o t :
        h \in SeqsUpTo(EdgeChars, MaxEdge),
        t \in SeqsUpTo(EdgeChars, MaxEdge),
        n \in {0, 1} \cup ((MaxSanitizedLen - MaxEdge)..(MaxSanitizedLen + 1))}

RECURSIVE ParentDirs(_)
ParentDirs(k) == IF k = 0 THEN <<>> ELSE <<".", ".", "/">> \o ParentDirs(k - 1)

\* the paths that follow the parent-directory components
RemainingPaths ==
    {<<"e", "t", "c", "/", "p", "a", "s", "s", "w", "d">>,
     <<"a">>, <<"a", "/", "a">>}

\* "../../etc/passwd" and the names like it
TraversalNames ==
    {ParentDirs(k) \o p : k \in 1..MaxUp, p \in RemainingPaths}

\* the names of test_sanitize.cpp that the other sets do not hold
TestNames ==
    {<<"C", "O", "N">>, <<"c", "o", "n">>,
     <<"N", "U", "L", ".", "t", "x", "t">>, <<"C", "O", "M", "1">>,
     <<"L", "P", "T", "9", ".", "d", "o", "c">>,
     <<".", ".", "\\", "a">>, <<"a", "\\", "a", ".", "t", "x", "t">>,
     <<"a", ">", ":", "\"", "|", "?", "*", ".", "t", "x", "t">>}

RawNames == EdgeNames \cup TraversalNames \cup TestNames

\* sanitize_filename(raw_name) is called and returns
SanitizeFilenameCall ==
    /\ raw_name \in RawNames
    /\ sn_result = <<>>
    /\ sn_result' = sanitize_filename(raw_name)
    /\ UNCHANGED <<raw_name, rx_opened>>
    /\ UNCHANGED <<sessionVars, ptVars, discVars, localVars>>

Opened(by) == {o \in rx_opened : o.by = by}

\* control_server.cpp lines 293-307: the file of list entry raw_name, file
\* id `id`, is opened by ControlServer::receive_files
ControlServerOpenOutput(id) ==
    /\ raw_name \in RawNames
    /\ Opened("ControlServer") = {}
    /\ LET safe == sanitize_filename(raw_name)
           safe_name == IF safe = <<>> \/ safe = Unnamed
                        THEN <<"f", "i", "l", "e", "_">> \o IdToString(id)
                        ELSE safe
           output_path == OutputDir \o <<"/">> \o safe_name
       IN  rx_opened' = rx_opened \cup
               {[by |-> "ControlServer", name |-> raw_name,
                 path |-> output_path]}
    /\ UNCHANGED <<raw_name, sn_result>>
    /\ UNCHANGED <<sessionVars, ptVars, discVars, localVars>>

\* transfer_manager.cpp lines 136-147: the file of list entry raw_name is
\* opened by TransferManager::receive_files
TransferManagerOpenOutput ==
    /\ raw_name \in RawNames
    /\ Opened("TransferManager") = {}
    /\ LET output_path == OutputDir \o <<"/">> \o raw_name
       IN  rx_opened' = rx_opened \cup
               {[by |-> "TransferManager", name |-> raw_name,
                 path |-> output_path]}
    /\ UNCHANGED <<raw_name, sn_result>>
    /\ UNCHANGED <<sessionVars, ptVars, discVars, localVars>>

\* one entry of a FILE_LIST arrives with the name the peer chose
NamesInit ==
    /\ raw_name \in RawNames
    /\ sn_result = <<>> /\ rx_opened = {}
    /\ pt_file_size = 0 /\ pt_skip = {} /\ pt_existing = {}
    /\ PTConstructed
    /\ SessionIdle
    /\ DiscoveryConstructed /\ LocalIdle

NamesNext ==
    \/ SanitizeFilenameCall
    \/ \E id \in 0..(MaxFiles - 1) : ControlServerOpenOutput(id)
    \/ TransferManagerOpenOutput

NamesSpec == NamesInit /\ [][NamesNext]_vars

(* ------------------------------------------------------------------ *)
(* DiscoveryManager and DeviceList                                    *)
(* ------------------------------------------------------------------ *)
\* m_self_device.id; the peers have the ids 1..NumPeers
SelfId == 0

\* is_expired with >= in place of >
is_expired_AtTtl(last_seen_ms, ttl_ms) == (d_now - last_seen_ms) >= ttl_ms

\* types.h lines 140-142: Device::is_expired, for a device last seen at
\* last_seen_ms
is_expired(last_seen_ms, ttl_ms) == (d_now - last_seen_ms) > ttl_ms

\* device_list.cpp lines 14-30: the map after upsert of a device with the
\* given id and last_seen_ms
Upserted(id, last_seen_ms) ==
    [p \in (DOMAIN m_devices) \cup {id} |->
        IF p = id THEN last_seen_ms ELSE m_devices[p]]

\* device_list.cpp lines 14-30: DeviceList::upsert
UpsertEffect(id, last_seen_ms) ==
    /\ m_devices' = Upserted(id, last_seen_ms)
    /\ m_order' = IF id \notin DOMAIN m_devices
                  THEN Append(m_order, id)
                  ELSE m_order

\* the entries remove_expired finds expired
ExpiredIds == {p \in DOMAIN m_devices : is_expired(m_devices[p], DeviceTtl)}

\* remove_expired without the clean-up of the order list (lines 48-57)
RemoveExpiredEffect_OrderKept ==
    /\ m_devices' = [p \in (DOMAIN m_devices) \ ExpiredIds |-> m_devices[p]]
    /\ m_order' = m_order
    /\ dl_expired' = ExpiredIds

\* device_list.cpp lines 32-60: DeviceList::remove_expired
RemoveExpiredEffect ==
    /\ m_devices' = [p \in (DOMAIN m_devices) \ ExpiredIds |-> m_devices[p]]
    /\ m_order' = SelectSeq(m_order, LAMBDA id : id \notin ExpiredIds)
    /\ dl_expired' = ExpiredIds

\* device_list.cpp lines 109-113: DeviceList::clear
ClearEffect ==
    /\ m_devices' = [p \in {} |-> 0]
    /\ m_order' = <<>>

\* device_list.cpp lines 83-86: DeviceList::count
DeviceListCount == Cardinality(DOMAIN m_devices)

\* device_list.cpp lines 71-81: DeviceList::get_by_index, as the id of the
\* device returned, <<>> for nullopt
DeviceListGetByIndex(index) ==
    IF index >= Len(m_order) THEN <<>>
    ELSE IF m_order[index + 1] \in DOMAIN m_devices
         THEN <<m_order[index + 1]>>
         ELSE <<>>

\* device_list.cpp lines 88-101: DeviceList::all, as the ids in order
DeviceListAll == SelectSeq(m_order, LAMBDA id : id \in DOMAIN m_devices)

\* device_list.cpp lines 103-107: DeviceList::contains
DeviceListContains(id) ==
    id \in DOMAIN m_devices /\ ~is_expired(m_devices[id], DeviceTtl)

\* discovery.cpp lines 58-90: start while not running; the expiration
\* thread begins its first sleep
DiscoveryStart ==
    /\ ~disc_running
    /\ disc_running' = TRUE
    /\ d_wake' = d_now + ExpirySleep
    /\ UNCHANGED <<d_now, m_devices, m_order, d_last_cb, d_heard, dl_expired>>
    /\ UNCHANGED discThreadVars
    /\ UNCHANGED <<sessionVars, ptVars, nameVars, localVars>>

\* discovery.cpp lines 92-106: stop joins the threads and clears the list;
\* what the listener had accepted is forgotten with it
DiscoveryStop ==
    /\ disc_running
    /\ disc_running' = FALSE
    /\ ClearEffect
    /\ d_heard' = [p \in Peers |-> -1]
    /\ UNCHANGED <<d_now, d_wake, d_last_cb, dl_expired>>
    /\ UNCHANGED discThreadVars
    /\ UNCHANGED <<sessionVars, ptVars, nameVars, localVars>>

\* udp_broadcaster.cpp lines 190-265 and discovery.cpp lines 115-121: the
\* listener receives the announcement of `id` carrying protocol version v;
\* packets of another version and the instance's own are dropped, any other
\* is stamped with now_ms() and upserted, and on_found is called for a new id
UdpListenerReceive(id, v) ==
    /\ disc_running
    /\ IF v # TELEPORT_PROTOCOL_VERSION \/ id = SelfId
       THEN UNCHANGED <<m_devices, m_order, d_last_cb, d_heard>>
       ELSE LET is_new == id \notin DOMAIN m_devices IN
            /\ UpsertEffect(id, d_now)
            /\ d_last_cb' = IF is_new
                            THEN [d_last_cb EXCEPT ![id] = "found"]
                            ELSE d_last_cb
            /\ d_heard' = [d_heard EXCEPT ![id] = d_now]
    /\ UNCHANGED <<d_now, disc_running, d_wake, dl_expired>>
    /\ UNCHANGED discThreadVars
    /\ UNCHANGED <<sessionVars, ptVars, nameVars, localVars>>

\* discovery.cpp lines 123-138 and device_list.cpp lines 32-60: the sleep of
\* the expiration loop ends; remove_expired erases the expired entries,
\* on_lost is called for each, and the loop sleeps again
ExpirationLoopWake ==
    /\ disc_running
    /\ d_now = d_wake
    /\ RemoveExpiredEffect
    /\ d_last_cb' = [p \in Peers |->
                        IF p \in ExpiredIds THEN "lost" ELSE d_last_cb[p]]
    /\ d_wake' = d_now + ExpirySleep
    /\ UNCHANGED <<d_now, disc_running, d_heard>>
    /\ UNCHANGED discThreadVars
    /\ UNCHANGED <<sessionVars, ptVars, nameVars, localVars>>

\* the clock advances by one step; a sleeping expiration loop wakes on time
ClockTick ==
    /\ d_now < MaxTime
    /\ disc_running => d_now < d_wake
    /\ d_now' = d_now + 1
    /\ UNCHANGED <<disc_running, m_devices, m_order, d_wake, d_last_cb,
                   d_heard, dl_expired>>
    /\ UNCHANGED discThreadVars
    /\ UNCHANGED <<sessionVars, ptVars, nameVars, localVars>>

\* a thread calls upsert with a device of the given id and last_seen_ms
DeviceListUpsert(id, last_seen_ms) ==
    /\ ~disc_running
    /\ UpsertEffect(id, last_seen_ms)
    /\ UNCHANGED <<d_now, disc_running, d_wake, d_last_cb, d_heard,
                   dl_expired>>
    /\ UNCHANGED discThreadVars
    /\ UNCHANGED <<sessionVars, ptVars, nameVars, localVars>>

\* a thread calls remove_expired
DeviceListRemoveExpired ==
    /\ ~disc_running
    /\ RemoveExpiredEffect
    /\ UNCHANGED <<d_now, disc_running, d_wake, d_last_cb, d_heard>>
    /\ UNCHANGED discThreadVars
    /\ UNCHANGED <<sessionVars, ptVars, nameVars, localVars>>

\* a thread calls clear
DeviceListClear ==
    /\ ~disc_running
    /\ ClearEffect
    /\ UNCHANGED <<d_now, disc_running, d_wake, d_last_cb, d_heard,
                   dl_expired>>
    /\ UNCHANGED discThreadVars
    /\ UNCHANGED <<sessionVars, ptVars, nameVars, localVars>>

DiscoveryInit ==
    /\ DiscoveryConstructed /\ LocalIdle
    /\ NamesIdle
    /\ pt_file_size = 0 /\ pt_skip = {} /\ pt_existing = {}
    /\ PTConstructed
    /\ SessionIdle

DiscoveryNext ==
    \/ DiscoveryStart
    \/ DiscoveryStop
    \/ \E id \in {SelfId} \cup Peers :
          \E v \in {TELEPORT_PROTOCOL_VERSION, OtherVersion} :
             UdpListenerReceive(id, v)
    \/ ExpirationLoopWake
    \/ ClockTick

DiscoverySpec == DiscoveryInit /\ [][DiscoveryNext]_vars

\* a DeviceList of its own (as in test_discovery.cpp), its member functions
\* called in any order while the clock runs; each call holds m_mutex from
\* start to end
DeviceListNext ==
    \/ \E id \in Peers : \E last_seen_ms \in 0..d_now :
          DeviceListUpsert(id, last_seen_ms)
    \/ DeviceListRemoveExpired
    \/ DeviceListClear
    \/ ClockTick

DeviceListSpec == DiscoveryInit /\ [][DeviceListNext]_vars

(* ------------------------------------------------------------------ *)
(* Discovery: the threads, teleport_start_discovery and               *)
(* teleport_stop_discovery                                            *)
(* ------------------------------------------------------------------ *)
\* the peer whose announcements arrive while the threads are followed
AnnouncingPeer == 1

\* the callbacks with user data an application may register
CallbackSets == {"A", "B"}

\* teleport.cpp lines 199-232 with discovery.cpp lines 58-90: the engine's
\* callbacks and user data are assigned, then DiscoveryManager::start is
\* called; it fails if m_running is set and otherwise starts the listener,
\* the broadcaster and the expiration thread
TeleportStartDiscovery(cb) ==
    /\ stop_pc = "none"
    /\ eng_cb' = cb
    /\ IF disc_running
       THEN /\ api_result' = TELEPORT_ERROR_ALREADY_RUNNING
            /\ UNCHANGED <<lis_running, lis_pc, lis_sock, bc_running, bc_pc,
                           bc_sock, disc_running, exp_pc, d_api, started_cb>>
       ELSE /\ lis_sock' = TRUE /\ lis_running' = TRUE /\ lis_pc' = "loop"
            /\ bc_sock' = TRUE /\ bc_running' = TRUE /\ bc_pc' = "loop"
            /\ disc_running' = TRUE
            /\ exp_pc' = "loop"
            /\ api_result' = TELEPORT_OK
            /\ d_api' = "Running"
            /\ started_cb' = cb
    /\ UNCHANGED <<d_now, m_devices, m_order, d_wake, d_last_cb, d_heard,
                   dl_expired, lis_dev, stop_pc, cb_in_stopped>>
    /\ UNCHANGED <<sessionVars, ptVars, nameVars, localVars>>

\* udp_broadcaster.cpp line 193: listen_loop tests m_running
ListenLoopTest ==
    /\ lis_pc = "loop"
    /\ lis_pc' = IF lis_running THEN "recv" ELSE "exited"
    /\ UNCHANGED <<d_now, disc_running, m_devices, m_order, d_wake, d_last_cb,
                   d_heard, dl_expired, lis_running, lis_dev, lis_sock,
                   bc_running, bc_pc, bc_sock, exp_pc, stop_pc, eng_cb,
                   api_result, d_api, started_cb, cb_in_stopped>>
    /\ UNCHANGED <<sessionVars, ptVars, nameVars, localVars>>

\* lines 197-205: recv_from times out after 500 ms
ListenRecvTimeout ==
    /\ lis_pc = "recv"
    /\ lis_pc' = "loop"
    /\ UNCHANGED <<d_now, disc_running, m_devices, m_order, d_wake, d_last_cb,
                   d_heard, dl_expired, lis_running, lis_dev, lis_sock,
                   bc_running, bc_pc, bc_sock, exp_pc, stop_pc, eng_cb,
                   api_result, d_api, started_cb, cb_in_stopped>>
    /\ UNCHANGED <<sessionVars, ptVars, nameVars, localVars>>

\* lines 197-216 and 220-265: the announcement of `id` with protocol version
\* v is received and parsed; a packet of another version or of the instance
\* itself is dropped, any other is stamped with now_ms()
ListenRecvPacket(id, v) ==
    /\ lis_pc = "recv"
    /\ IF v # TELEPORT_PROTOCOL_VERSION \/ id = SelfId
       THEN /\ lis_pc' = "loop"
            /\ UNCHANGED <<lis_dev, d_heard>>
       ELSE /\ lis_pc' = "deliver"
            /\ lis_dev' = [id |-> id, last_seen_ms |-> d_now]
            /\ d_heard' = [d_heard EXCEPT ![id] = d_now]
    /\ UNCHANGED <<d_now, disc_running, m_devices, m_order, d_wake, d_last_cb,
                   dl_expired, lis_running, lis_sock, bc_running, bc_pc,
                   bc_sock, exp_pc, stop_pc, eng_cb, api_result, d_api,
                   started_cb, cb_in_stopped>>
    /\ UNCHANGED <<sessionVars, ptVars, nameVars, localVars>>

\* the found or lost callback of the engine fires
CallbackFires == cb_in_stopped' = (cb_in_stopped \/ d_api = "Stopped")

\* udp_broadcaster.cpp line 214 and discovery.cpp lines 115-121: m_callback,
\* i.e. on_device_received: upsert, and on_found for a new device
ListenDeliver ==
    /\ lis_pc = "deliver"
    /\ UpsertEffect(lis_dev.id, lis_dev.last_seen_ms)
    /\ IF lis_dev.id \notin DOMAIN m_devices
       THEN /\ d_last_cb' = [d_last_cb EXCEPT ![lis_dev.id] = "found"]
            /\ CallbackFires
       ELSE UNCHANGED <<d_last_cb, cb_in_stopped>>
    /\ lis_pc' = "loop"
    /\ UNCHANGED <<d_now, disc_running, d_wake, d_heard, dl_expired,
                   lis_running, lis_dev, lis_sock, bc_running, bc_pc, bc_sock,
                   exp_pc, stop_pc, eng_cb, api_result, d_api, started_cb>>
    /\ UNCHANGED <<sessionVars, ptVars, nameVars, localVars>>

\* udp_broadcaster.cpp lines 89-103: broadcast_loop tests m_running,
\* broadcasts the own device and sleeps, or ends
BroadcastLoopTest ==
    /\ bc_pc = "loop"
    /\ bc_pc' = IF bc_running THEN "loop" ELSE "exited"
    /\ UNCHANGED <<d_now, disc_running, m_devices, m_order, d_wake, d_last_cb,
                   d_heard, dl_expired, lis_running, lis_pc, lis_dev, lis_sock,
                   bc_running, bc_sock, exp_pc, stop_pc, eng_cb, api_result,
                   d_api, started_cb, cb_in_stopped>>
    /\ UNCHANGED <<sessionVars, ptVars, nameVars, localVars>>

\* discovery.cpp lines 124-126: expiration_loop tests m_running and sleeps
ExpirationLoopTest ==
    /\ exp_pc = "loop"
    /\ IF disc_running
       THEN exp_pc' = "sleep" /\ d_wake' = d_now + ExpirySleep
       ELSE exp_pc' = "exited" /\ UNCHANGED d_wake
    /\ UNCHANGED <<d_now, disc_running, m_devices, m_order, d_last_cb, d_heard,
                   dl_expired, lis_running, lis_pc, lis_dev, lis_sock,
                   bc_running, bc_pc, bc_sock, stop_pc, eng_cb, api_result,
                   d_api, started_cb, cb_in_stopped>>
    /\ UNCHANGED <<sessionVars, ptVars, nameVars, localVars>>

\* lines 126-128: the sleep ends and m_running is tested again
ExpirationSleepEnds ==
    /\ exp_pc = "sleep"
    /\ d_now >= d_wake
    /\ exp_pc' = IF disc_running THEN "sweep" ELSE "exited"
    /\ UNCHANGED <<d_now, disc_running, m_devices, m_order, d_wake, d_last_cb,
                   d_heard, dl_expired, lis_running, lis_pc, lis_dev, lis_sock,
                   bc_running, bc_pc, bc_sock, stop_pc, eng_cb, api_result,
                   d_api, started_cb, cb_in_stopped>>
    /\ UNCHANGED <<sessionVars, ptVars, nameVars, localVars>>

\* lines 130-136: remove_expired, and on_lost for every id it returned
ExpirationSweep ==
    /\ exp_pc = "sweep"
    /\ RemoveExpiredEffect
    /\ d_last_cb' = [p \in Peers |->
                        IF p \in ExpiredIds THEN "lost" ELSE d_last_cb[p]]
    /\ IF ExpiredIds # {} THEN CallbackFires ELSE UNCHANGED cb_in_stopped
    /\ exp_pc' = "loop"
    /\ UNCHANGED <<d_now, disc_running, d_wake, d_heard, lis_running, lis_pc,
                   lis_dev, lis_sock, bc_running, bc_pc, bc_sock, stop_pc,
                   eng_cb, api_result, d_api, started_cb>>
    /\ UNCHANGED <<sessionVars, ptVars, nameVars, localVars>>

\* teleport.cpp lines 234-238 and discovery.cpp lines 92-94: stop is
\* called; it does nothing unless m_running is set, which it clears
StopBegin ==
    /\ stop_pc = "none"
    /\ IF disc_running
       THEN /\ disc_running' = FALSE
            /\ stop_pc' = "bc_stop"
            /\ d_api' = "Stopping"
       ELSE UNCHANGED <<disc_running, stop_pc, d_api>>
    /\ UNCHANGED <<d_now, m_devices, m_order, d_wake, d_last_cb, d_heard,
                   dl_expired, lis_running, lis_pc, lis_dev, lis_sock,
                   bc_running, bc_pc, bc_sock, exp_pc, eng_cb, api_result,
                   started_cb, cb_in_stopped>>
    /\ UNCHANGED <<sessionVars, ptVars, nameVars, localVars>>

\* udp_broadcaster.cpp lines 55-57: UdpBroadcaster::stop clears m_running
StopBroadcaster ==
    /\ stop_pc = "bc_stop"
    /\ bc_running' = FALSE
    /\ stop_pc' = "bc_join"
    /\ UNCHANGED <<d_now, disc_running, m_devices, m_order, d_wake, d_last_cb,
                   d_heard, dl_expired, lis_running, lis_pc, lis_dev, lis_sock,
                   bc_pc, bc_sock, exp_pc, eng_cb, api_result, d_api,
                   started_cb, cb_in_stopped>>
    /\ UNCHANGED <<sessionVars, ptVars, nameVars, localVars>>

\* lines 58-64: the broadcast thread is joined and the socket closed
StopJoinBroadcaster ==
    /\ stop_pc = "bc_join"
    /\ bc_pc = "exited"
    /\ bc_pc' = "none"
    /\ bc_sock' = FALSE
    /\ stop_pc' = "lis_stop"
    /\ UNCHANGED <<d_now, disc_running, m_devices, m_order, d_wake, d_last_cb,
                   d_heard, dl_expired, lis_running, lis_pc, lis_dev, lis_sock,
                   bc_running, exp_pc, eng_cb, api_result, d_api, started_cb,
                   cb_in_stopped>>
    /\ UNCHANGED <<sessionVars, ptVars, nameVars, localVars>>

\* udp_broadcaster.cpp lines 176-178: UdpListener::stop clears m_running
StopListener ==
    /\ stop_pc = "lis_stop"
    /\ lis_running' = FALSE
    /\ stop_pc' = "lis_join"
    /\ UNCHANGED <<d_now, disc_running, m_devices, m_order, d_wake, d_last_cb,
                   d_heard, dl_expired, lis_pc, lis_dev, lis_sock, bc_running,
                   bc_pc, bc_sock, exp_pc, eng_cb, api_result, d_api,
                   started_cb, cb_in_stopped>>
    /\ UNCHANGED <<sessionVars, ptVars, nameVars, localVars>>

\* UdpListener::stop going on without m_thread.join()
StopJoinListener_NoJoin ==
    /\ stop_pc = "lis_join"
    /\ lis_pc' = lis_pc
    /\ lis_sock' = FALSE
    /\ stop_pc' = "exp_join"
    /\ UNCHANGED <<d_now, disc_running, m_devices, m_order, d_wake, d_last_cb,
                   d_heard, dl_expired, lis_running, lis_dev, bc_running,
                   bc_pc, bc_sock, exp_pc, eng_cb, api_result, d_api,
                   started_cb, cb_in_stopped>>
    /\ UNCHANGED <<sessionVars, ptVars, nameVars, localVars>>

\* lines 179-185: the listen thread is joined and the socket closed
StopJoinListener ==
    /\ stop_pc = "lis_join"
    /\ lis_pc = "exited"
    /\ lis_pc' = "none"
    /\ lis_sock' = FALSE
    /\ stop_pc' = "exp_join"
    /\ UNCHANGED <<d_now, disc_running, m_devices, m_order, d_wake, d_last_cb,
                   d_heard, dl_expired, lis_running, lis_dev, bc_running,
                   bc_pc, bc_sock, exp_pc, eng_cb, api_result, d_api,
                   started_cb, cb_in_stopped>>
    /\ UNCHANGED <<sessionVars, ptVars, nameVars, localVars>>

\* discovery.cpp lines 99-105: the expiration thread is joined, the list
\* cleared, and stop returns
StopJoinExpiration ==
    /\ stop_pc = "exp_join"
    /\ exp_pc = "exited"
    /\ exp_pc' = "none"
    /\ ClearEffect
    /\ d_heard' = [p \in Peers |-> -1]
    /\ stop_pc' = "none"
    /\ d_api' = "Stopped"
    /\ UNCHANGED <<d_now, disc_running, d_wake, d_last_cb, dl_expired,
                   lis_running, lis_pc, lis_dev, lis_sock, bc_running, bc_pc,
                   bc_sock, eng_cb, api_result, started_cb, cb_in_stopped>>
    /\ UNCHANGED <<sessionVars, ptVars, nameVars, localVars>>

DiscoveryThreadsNext ==
    \/ \E cb \in CallbackSets : TeleportStartDiscovery(cb)
    \/ ListenLoopTest
    \/ ListenRecvTimeout
    \/ \E id \in {SelfId, AnnouncingPeer} :
          \E v \in {TELEPORT_PROTOCOL_VERSION, OtherVersion} :
             ListenRecvPacket(id, v)
    \/ ListenDeliver
    \/ BroadcastLoopTest
    \/ ExpirationLoopTest
    \/ ExpirationSleepEnds
    \/ ExpirationSweep
    \/ StopBegin
    \/ StopBroadcaster
    \/ StopJoinBroadcaster
    \/ StopListener
    \/ StopJoinListener
    \/ StopJoinExpiration
    \/ ClockTick

DiscoveryThreadsSpec == DiscoveryInit /\ [][DiscoveryThreadsNext]_vars

(* ------------------------------------------------------------------ *)
(* ResumeManager: save and load of a ResumeState                      *)
(* ------------------------------------------------------------------ *)
\* v >> bits for the values of the model, which are below 2^31
ShiftRight(v, bits) == IF bits >= 31 THEN 0 ELSE v \div (2 ^ bits)

\* write_u32 in the other byte order
U32Bytes_LittleEndian(v) ==
    <<v % 256, ShiftRight(v, 8) % 256, ShiftRight(v, 16) % 256,
      ShiftRight(v, 24) % 256>>

\* resume_manager.hpp lines 95-100: write_u32
U32Bytes(v) ==
    <<ShiftRight(v, 24) % 256, ShiftRight(v, 16) % 256,
      ShiftRight(v, 8) % 256, v % 256>>

\* lines 102-106: write_u64
U64Bytes(v) == [i \in 1..8 |-> ShiftRight(v, (8 - i) * 8) % 256]

\* lines 108-111: write_str
StrBytes(s) == U32Bytes(Len(s)) \o s

RECURSIVE ChunkListBytes(_)
ChunkListBytes(cs) ==
    IF cs = <<>> THEN <<>> ELSE U32Bytes(Head(cs)) \o ChunkListBytes(Tail(cs))

\* "TPLR" and the format version, as resume_manager.hpp lines 23-24 give them
ResumeMagicBytes == <<84, 80, 76, 82>>
ResumeVersion == 1

\* lines 92-132: serialize_resume_state
serialize_resume_state(state) ==
    ResumeMagicBytes \o U32Bytes(ResumeVersion)
        \o StrBytes(state.file_name)
        \o U64Bytes(state.file_size)
        \o U32Bytes(state.file_id)
        \o U32Bytes(state.chunk_size)
        \o U32Bytes(state.total_chunks)
        \o U32Bytes(Len(state.received_chunks))
        \o ChunkListBytes(state.received_chunks)
        \o StrBytes(state.sender_id)
        \o StrBytes(state.session_token)
        \o U64Bytes(state.timestamp)

\* ResumeState{}: what the default constructor gives
EmptyResumeState ==
    [file_name |-> <<>>, file_size |-> 0, file_id |-> 0, chunk_size |-> 0,
     total_chunks |-> 0, received_chunks |-> <<>>, sender_id |-> <<>>,
     session_token |-> <<>>, timestamp |-> 0]

\* lines 141-147: read_u32 at pos, as the value and the new pos
ReadU32(data, pos) ==
    IF pos + 4 > Len(data) THEN [v |-> 0, pos |-> pos]
    ELSE [v |-> data[pos + 1] * 16777216 + data[pos + 2] * 65536
                   + data[pos + 3] * 256 + data[pos + 4],
          pos |-> pos + 4]

\* lines 149-157: read_u64 at pos; the upper four bytes of the model's
\* values are zero
ReadU64(data, pos) ==
    IF pos + 8 > Len(data) THEN [v |-> 0, pos |-> pos]
    ELSE [v |-> data[pos + 5] * 16777216 + data[pos + 6] * 65536
                   + data[pos + 7] * 256 + data[pos + 8],
          pos |-> pos + 8]

\* lines 159-165: read_str at pos
ReadStr(data, pos) ==
    LET len == ReadU32(data, pos) IN
    IF len.pos + len.v > Len(data) THEN [v |-> <<>>, pos |-> len.pos]
    ELSE [v |-> SubSeq(data, len.pos + 1, len.pos + len.v),
          pos |-> len.pos + len.v]

\* lines 184-186: chunk_count times read_u32
RECURSIVE ReadChunkList(_, _, _)
ReadChunkList(data, pos, count) ==
    IF count = 0 THEN [v |-> <<>>, pos |-> pos]
    ELSE LET c == ReadU32(data, pos)
             rest == ReadChunkList(data, c.pos, count - 1)
         IN  [v |-> <<c.v>> \o rest.v, pos |-> rest.pos]

\* lines 137-193: deserialize_resume_state
deserialize_resume_state(data) ==
    LET magic == ReadU32(data, 0)
        version == ReadU32(data, magic.pos)
    IN  IF magic.v # ReadU32(ResumeMagicBytes, 0).v \/ version.v # ResumeVersion
        THEN EmptyResumeState
        ELSE LET file_name == ReadStr(data, version.pos)
                 file_size == ReadU64(data, file_name.pos)
                 file_id == ReadU32(data, file_size.pos)
                 chunk_size == ReadU32(data, file_id.pos)
                 total_chunks == ReadU32(data, chunk_size.pos)
                 chunk_count == ReadU32(data, total_chunks.pos)
                 chunks == ReadChunkList(data, chunk_count.pos, chunk_count.v)
                 sender_id == ReadStr(data, chunks.pos)
                 session_token == ReadStr(data, sender_id.pos)
                 timestamp == ReadU64(data, session_token.pos)
             IN  [file_name |-> file_name.v, file_size |-> file_size.v,
                  file_id |-> file_id.v, chunk_size |-> chunk_size.v,
                  total_chunks |-> total_chunks.v,
                  received_chunks |-> chunks.v, sender_id |-> sender_id.v,
                  session_token |-> session_token.v,
                  timestamp |-> timestamp.v]

\* std::to_string of a value 0..61, as digits
RECURSIVE HashDigits(_)
HashDigits(s) ==
    IF s = <<>> THEN <<>>
    ELSE LET x == Head(s) % 62 IN
         (IF x < 10 THEN <<x>> ELSE <<x \div 10, x % 10>>)
             \o HashDigits(Tail(s))

\* resume_manager.cpp lines 23-35: get_state_path, as the file name without
\* directory and extension
get_state_path(file_name, sender_id) ==
    LET hash == HashDigits(file_name \o sender_id) IN
    IF Len(hash) > 32 THEN SubSeq(hash, 1, 32) ELSE hash

\* the ResumeStates given to save: names and ids as bytes, numbers of one,
\* two and three significant bytes, chunk lists in and out of order
ResumeStates ==
    [file_name : {<<>>, <<116>>, <<116, 46, 98>>},
     file_size : {0, 1, 300, 70000},
     file_id : {0, 42},
     chunk_size : {0, 256},
     total_chunks : {0, 2},
     received_chunks : {<<>>, <<0>>, <<1, 0>>, <<0, 0>>, <<515>>},
     sender_id : {<<>>, <<115>>},
     session_token : {<<>>, <<107>>},
     timestamp : {0, 5}]

\* resume_manager.cpp lines 37-59: save stamps the state with the system
\* clock and writes it, or fails to open the file
ResumeSave ==
    /\ rs_state \in ResumeStates
    /\ rs_saved = <<>>
    /\ \/ /\ rs_file' =
               [path |-> get_state_path(rs_state.file_name,
                                        rs_state.sender_id),
                data |-> serialize_resume_state(
                             [rs_state EXCEPT !.timestamp = rs_clock])]
          /\ rs_saved' = <<TRUE>>
       \/ /\ rs_saved' = <<FALSE>>
          /\ UNCHANGED rs_file
    /\ UNCHANGED <<rs_state, rs_clock, rs_loaded>>
    /\ UNCHANGED <<trackerVars, portVars, sideVars>>
    /\ UNCHANGED <<sessionVars, ptVars, nameVars, discVars>>

\* resume_manager.cpp lines 61-86: load(rs_state.file_name,
\* rs_state.sender_id)
ResumeLoad ==
    /\ rs_saved # <<>>
    /\ rs_loaded = <<>>
    /\ rs_loaded' =
          IF rs_file # <<>>
             /\ rs_file.path = get_state_path(rs_state.file_name,
                                              rs_state.sender_id)
          THEN <<deserialize_resume_state(rs_file.data)>>
          ELSE <<EmptyResumeState>>
    /\ UNCHANGED <<rs_state, rs_clock, rs_file, rs_saved>>
    /\ UNCHANGED <<trackerVars, portVars, sideVars>>
    /\ UNCHANGED <<sessionVars, ptVars, nameVars, discVars>>

ResumeInit ==
    /\ rs_state \in ResumeStates
    /\ rs_clock \in {5, 6}
    /\ rs_file = <<>> /\ rs_saved = <<>> /\ rs_loaded = <<>>
    /\ TrackerIdle /\ PortIdle /\ SideIdle
    /\ NamesIdle /\ DiscoveryConstructed
    /\ pt_file_size = 0 /\ pt_skip = {} /\ pt_existing = {}
    /\ PTConstructed
    /\ SessionIdle

ResumeNext == ResumeSave \/ ResumeLoad

ResumeSpec == ResumeInit /\ [][ResumeNext]_vars

(* ------------------------------------------------------------------ *)
(* ControlServer::start and the port a device announces               *)
(* ------------------------------------------------------------------ *)
ControlPortRange == TELEPORT_CONTROL_PORT_MIN..TELEPORT_CONTROL_PORT_MAX

\* control_server.cpp lines 57-69: the bind loop from try_port, i tries
\* done; the port bound, or -1 when the loop ends unbound
RECURSIVE BindLoop(_, _, _)
BindLoop(try_port, i, busy) ==
    IF i >= MaxBindTries THEN -1
    ELSE IF try_port \notin busy THEN try_port
    ELSE LET next == (try_port + 1) % 65536 IN
         BindLoop(IF next > TELEPORT_CONTROL_PORT_MAX
                  THEN TELEPORT_CONTROL_PORT_MIN ELSE next,
                  i + 1, busy)

\* lines 51-55: the port the loop starts from
FirstTryPort(control_port) ==
    IF control_port = 0 THEN TELEPORT_CONTROL_PORT_MIN ELSE control_port

\* values of Config::control_port: automatic, the ends and the middle of
\* the range, and a port outside it
ConfiguredPorts ==
    {0, TELEPORT_CONTROL_PORT_MIN, TELEPORT_CONTROL_PORT_MIN + 45,
     TELEPORT_CONTROL_PORT_MAX, 8080}

\* the ports other programs hold: the first k of the range, one port, all
\* of the range but one, and the configured port outside the range
BusyPortSets ==
    {TELEPORT_CONTROL_PORT_MIN..(k - 1) :
        k \in TELEPORT_CONTROL_PORT_MIN..(TELEPORT_CONTROL_PORT_MAX + 1)}
    \cup {{p} : p \in ConfiguredPorts \ {0}}
    \cup {ControlPortRange \ {p} : p \in ConfiguredPorts \cap ControlPortRange}

\* ControlServer::start lines 30-88, for a server that is not running
ControlServerStart ==
    /\ ~srv_running
    /\ \/ \* create_tcp_socket fails
          /\ srv_result' = <<TELEPORT_ERROR_SOCKET_CREATE>>
          /\ srv_fail' = "socket"
          /\ UNCHANGED <<m_port, srv_running>>
       \/ LET bound == BindLoop(FirstTryPort(cfg_control_port), 0, busy_ports)
          IN  IF bound = -1
              THEN /\ srv_result' = <<TELEPORT_ERROR_SOCKET_BIND>>
                   /\ srv_fail' = "bind"
                   /\ UNCHANGED <<m_port, srv_running>>
              ELSE /\ m_port' = bound
                   /\ \/ /\ srv_running' = TRUE
                         /\ srv_result' = <<bound>>
                         /\ srv_fail' = "none"
                      \/ \* listen fails; pal reports it with the bind code
                         /\ srv_result' = <<TELEPORT_ERROR_SOCKET_BIND>>
                         /\ srv_fail' = "listen"
                         /\ UNCHANGED srv_running
    /\ UNCHANGED <<cfg_control_port, busy_ports, self_port, announced,
                   peer_address>>
    /\ UNCHANGED <<resumeVars, trackerVars, sideVars>>
    /\ UNCHANGED <<sessionVars, ptVars, nameVars, discVars>>

\* ControlServer::stop lines 90-104
ControlServerStop ==
    /\ srv_running
    /\ srv_running' = FALSE
    /\ UNCHANGED <<cfg_control_port, busy_ports, m_port, srv_result, srv_fail,
                   self_port, announced, peer_address>>
    /\ UNCHANGED <<resumeVars, trackerVars, sideVars>>
    /\ UNCHANGED <<sessionVars, ptVars, nameVars, discVars>>

\* broadcast_loop / serialize_device: an announcement carries
\* m_self_device.address.port; with it is kept whether the control server
\* was listening when it was sent, and on which port
BroadcastAnnouncement ==
    /\ announced' = announced \cup
          {[port |-> self_port, listening |-> srv_running,
            bound |-> IF srv_running THEN m_port ELSE 0]}
    /\ UNCHANGED <<cfg_control_port, busy_ports, m_port, srv_running,
                   srv_result, srv_fail, self_port, peer_address>>
    /\ UNCHANGED <<resumeVars, trackerVars, sideVars>>
    /\ UNCHANGED <<sessionVars, ptVars, nameVars, discVars>>

\* parse_packet / DeviceList::upsert on a peer: the port of an announcement
\* becomes the port of the address in the peer's registry
PeerStoresAddress ==
    /\ \E a \in announced : peer_address' = <<a.port>>
    /\ UNCHANGED <<cfg_control_port, busy_ports, m_port, srv_running,
                   srv_result, srv_fail, self_port, announced>>
    /\ UNCHANGED <<resumeVars, trackerVars, sideVars>>
    /\ UNCHANGED <<sessionVars, ptVars, nameVars, discVars>>

\* teleport_create: DiscoveryManager and ControlServer constructed from one
\* Config
PortInit ==
    /\ cfg_control_port \in ConfiguredPorts
    /\ busy_ports \in BusyPortSets
    /\ m_port = 0 /\ srv_running = FALSE
    /\ srv_result = <<>> /\ srv_fail = "none"
    /\ self_port = cfg_control_port
    /\ announced = {} /\ peer_address = <<>>
    /\ ResumeIdle /\ TrackerIdle /\ SideIdle
    /\ NamesIdle /\ DiscoveryConstructed
    /\ pt_file_size = 0 /\ pt_skip = {} /\ pt_existing = {}
    /\ PTConstructed
    /\ SessionIdle

PortNext ==
    \/ ControlServerStart
    \/ ControlServerStop
    \/ BroadcastAnnouncement
    \/ PeerStoresAddress

PortSpec == PortInit /\ [][PortNext]_vars

(* ------------------------------------------------------------------ *)
(* Chunk headers from a peer that does not conform                    *)
(* ------------------------------------------------------------------ *)
\* the headers a peer can send for a file of the given size: the file
\* received or another, chunk ids up to one past the last, sizes from 0 to
\* one more than chunk_size
PeerHeaders(size) ==
    [file_id : {0, 1}, chunk_id : 0..TotalChunks(size),
     size : 0..(ChunkSize + 1)]

Max(a, b) == IF a > b THEN a ELSE b

\* ControlServer::receive_files lines 318-346 for one header on the control
\* connection.  bytes_remaining is a uint64_t: a value below zero stands for
\* that value plus 2^64, which the loop test (> 0) takes as bytes to come.
ControlServerRecvHeader(h) ==
    /\ hv_kind = "control"
    /\ hv_status = "receiving"
    /\ hv_count < MaxHeaders
    /\ hv_count' = hv_count + 1
    /\ IF h.file_id # 0
       THEN /\ hv_status' = "error"
            /\ UNCHANGED <<hv_remaining, hv_pos, hv_written, hv_total,
                           hv_maxread>>
       ELSE LET to_read == Min(h.size, ChunkSize)
                left == hv_remaining - to_read
            IN  /\ hv_maxread' = Max(hv_maxread, to_read)
                /\ hv_written' = hv_written \cup
                                    (hv_pos..(hv_pos + to_read - 1))
                /\ hv_pos' = hv_pos + to_read
                /\ hv_total' = hv_total + to_read
                /\ hv_remaining' = left
                /\ hv_status' = IF left = 0 THEN "done" ELSE "receiving"
    /\ UNCHANGED <<hv_kind, hv_file_size, hv_tracker>>
    /\ UNCHANGED <<resumeVars, trackerVars, portVars, ptSideVars, overlapVars>>
    /\ UNCHANGED restVars
    /\ UNCHANGED <<sessionVars, ptVars, nameVars, discVars>>

\* ParallelTransfer::receiver_worker lines 342-380 for one header on a
\* stream, one worker.  The data of a header with size > chunk_size is
\* received into a buffer of chunk_size bytes: what follows is undefined.
ParallelReceiverRecvHeader(h) ==
    /\ hv_kind = "parallel"
    /\ hv_status = "receiving"
    /\ hv_count < MaxHeaders
    /\ hv_count' = hv_count + 1
    /\ IF h.size > ChunkSize
       THEN /\ hv_maxread' = h.size
            /\ hv_status' = "undefined"
            /\ UNCHANGED <<hv_written, hv_total, hv_tracker>>
       ELSE LET offset == SeekOffset(h)
                total == TotalChunks(hv_file_size)
                t == IF h.file_id = 0
                     THEN MarkReceived(hv_tracker, h.chunk_id, total)
                     ELSE hv_tracker
            IN  /\ hv_maxread' = Max(hv_maxread, h.size)
                /\ hv_written' = hv_written \cup
                                    (offset..(offset + h.size - 1))
                /\ hv_total' = hv_total + h.size
                /\ hv_tracker' = t
                /\ hv_status' = IF h.file_id = 0 /\ IsComplete(t, total)
                                THEN "done" ELSE "receiving"
    /\ UNCHANGED <<hv_kind, hv_file_size, hv_remaining, hv_pos>>
    /\ UNCHANGED <<resumeVars, trackerVars, portVars, ptSideVars, overlapVars>>
    /\ UNCHANGED restVars
    /\ UNCHANGED <<sessionVars, ptVars, nameVars, discVars>>

\* a file of at least one byte is being received, nothing written yet
HeaderInit ==
    /\ hv_kind \in {"control", "parallel"}
    /\ hv_file_size \in 1..MaxFileSize
    /\ hv_remaining = hv_file_size
    /\ hv_pos = 0 /\ hv_written = {} /\ hv_total = 0 /\ hv_maxread = 0
    /\ hv_status = "receiving" /\ hv_tracker = NewTracker /\ hv_count = 0
    /\ ResumeIdle /\ TrackerIdle /\ PortIdle /\ PTSideIdle /\ OverlapIdle
    /\ RestIdle
    /\ NamesIdle /\ DiscoveryConstructed
    /\ pt_file_size = 0 /\ pt_skip = {} /\ pt_existing = {}
    /\ PTConstructed
    /\ SessionIdle

HeaderNext ==
    \/ \E h \in PeerHeaders(hv_file_size) : ControlServerRecvHeader(h)
    \/ \E h \in PeerHeaders(hv_file_size) : ParallelReceiverRecvHeader(h)

HeaderSpec == HeaderInit /\ [][HeaderNext]_vars

(* ------------------------------------------------------------------ *)
(* ControlClient::send_files called from several threads              *)
(* ------------------------------------------------------------------ *)
Callers == 1..NumCallers

\* send_files lines 37-39: the test of m_state
SendFilesCheck(t) ==
    /\ sf_pc[t] = "idle"
    /\ sf_pc' = [sf_pc EXCEPT ![t] =
                    IF sf_m_state # "Idle" THEN "refused" ELSE "checked"]
    /\ UNCHANGED <<sf_m_state, sf_callbacks, sf_files, sf_cancel>>
    /\ UNCHANGED <<resumeVars, trackerVars, portVars, ptSideVars, headerVars>>
    /\ UNCHANGED restVars
    /\ UNCHANGED <<sessionVars, ptVars, nameVars, discVars>>

\* send_files lines 41-68: callbacks, flags, m_files and m_stats are set
\* for this call; a path that does not exist ends the call with FILE_OPEN
SendFilesBuild(t) ==
    /\ sf_pc[t] = "checked"
    /\ sf_callbacks' = t
    /\ sf_cancel' = FALSE
    /\ sf_files' = t
    /\ \/ sf_pc' = [sf_pc EXCEPT ![t] = "built"]
       \/ sf_pc' = [sf_pc EXCEPT ![t] = "returned"]
    /\ UNCHANGED sf_m_state
    /\ UNCHANGED <<resumeVars, trackerVars, portVars, ptSideVars, headerVars>>
    /\ UNCHANGED restVars
    /\ UNCHANGED <<sessionVars, ptVars, nameVars, discVars>>

\* send_files line 75: m_state leaves Idle
SendFilesConnect(t) ==
    /\ sf_pc[t] = "built"
    /\ sf_m_state' = "Connecting"
    /\ sf_pc' = [sf_pc EXCEPT ![t] = "session"]
    /\ UNCHANGED <<sf_callbacks, sf_files, sf_cancel>>
    /\ UNCHANGED <<resumeVars, trackerVars, portVars, ptSideVars, headerVars>>
    /\ UNCHANGED restVars
    /\ UNCHANGED <<sessionVars, ptVars, nameVars, discVars>>

\* cancel() called during a session
SessionCancel ==
    /\ \E t \in Callers : sf_pc[t] = "session"
    /\ ~sf_cancel
    /\ sf_cancel' = TRUE
    /\ UNCHANGED <<sf_pc, sf_m_state, sf_callbacks, sf_files>>
    /\ UNCHANGED <<resumeVars, trackerVars, portVars, ptSideVars, headerVars>>
    /\ UNCHANGED restVars
    /\ UNCHANGED <<sessionVars, ptVars, nameVars, discVars>>

\* send_files lines 143-159: the session ends, m_state returns to Idle
SendFilesCleanup(t) ==
    /\ sf_pc[t] = "session"
    /\ sf_m_state' = "Idle"
    /\ sf_pc' = [sf_pc EXCEPT ![t] = "returned"]
    /\ UNCHANGED <<sf_callbacks, sf_files, sf_cancel>>
    /\ UNCHANGED <<resumeVars, trackerVars, portVars, ptSideVars, headerVars>>
    /\ UNCHANGED restVars
    /\ UNCHANGED <<sessionVars, ptVars, nameVars, discVars>>

\* the thread calls send_files again
SendFilesAgain(t) ==
    /\ sf_pc[t] \in {"refused", "returned"}
    /\ sf_pc' = [sf_pc EXCEPT ![t] = "idle"]
    /\ UNCHANGED <<sf_m_state, sf_callbacks, sf_files, sf_cancel>>
    /\ UNCHANGED <<resumeVars, trackerVars, portVars, ptSideVars, headerVars>>
    /\ UNCHANGED restVars
    /\ UNCHANGED <<sessionVars, ptVars, nameVars, discVars>>

OverlapInit ==
    /\ sf_pc = [t \in Callers |-> "idle"]
    /\ sf_m_state = "Idle" /\ sf_callbacks = 0 /\ sf_files = 0
    /\ sf_cancel = FALSE
    /\ ResumeIdle /\ TrackerIdle /\ PortIdle /\ PTSideIdle /\ HeaderIdle
    /\ RestIdle
    /\ NamesIdle /\ DiscoveryConstructed
    /\ pt_file_size = 0 /\ pt_skip = {} /\ pt_existing = {}
    /\ PTConstructed
    /\ SessionIdle

OverlapNext ==
    \/ \E t \in Callers : SendFilesCheck(t)
    \/ \E t \in Callers : SendFilesBuild(t)
    \/ \E t \in Callers : SendFilesConnect(t)
    \/ SessionCancel
    \/ \E t \in Callers : SendFilesCleanup(t)
    \/ \E t \in Callers : SendFilesAgain(t)

OverlapSpec == OverlapInit /\ [][OverlapNext]_vars

(* ------------------------------------------------------------------ *)
(* ControlServer::receive_files: the files of one FILE_LIST on disk   *)
(* ------------------------------------------------------------------ *)
\* the names the entries of a FILE_LIST are drawn from
ListNames ==
    {<<"a">>, <<"a", "/", "b">>, <<"a", "_", "b">>, <<"a", "<", "b">>,
     <<>>, <<"f", "i", "l", "e", "_", "0">>}

\* control_server.cpp lines 295-300: the path of the entry with this name
\* and id
OutputPathOf(name, id) ==
    LET safe == sanitize_filename(name)
        safe_name == IF safe = <<>> \/ safe = Unnamed
                     THEN <<"f", "i", "l", "e", "_">> \o IdToString(id)
                     ELSE safe
    IN  OutputDir \o <<"/">> \o safe_name

\* the bytes the sender has for entry k: no byte of one file is a byte of
\* another
ContentOf(k) == [j \in 1..fl_sizes[k] |-> <<k, j>>]

\* the id of entry k (control_client.cpp: ids count from 0)
IdOf(k) == k - 1

\* lines 300-310: pal::open_file(output_path, FileMode::Write) creates the
\* file or cuts it to no bytes
ReceiveFilesOpen ==
    /\ fl_pc = "open"
    /\ LET output_path == OutputPathOf(fl_names[fl_idx], IdOf(fl_idx)) IN
       fl_disk' = [p \in (DOMAIN fl_disk) \cup {output_path} |->
                      IF p = output_path THEN <<>> ELSE fl_disk[p]]
    /\ fl_pc' = "write"
    /\ UNCHANGED <<fl_names, fl_sizes, fl_idx>>
    /\ UNCHANGED <<resumeVars, trackerVars, portVars>>
    /\ UNCHANGED <<ptSideVars, headerVars, overlapVars, resumeKeyVars>>
    /\ UNCHANGED <<stopVars, offsetVars>>
    /\ UNCHANGED <<sessionVars, ptVars, nameVars, discVars>>

\* lines 312-352: the chunks of the file are written, the next entry follows
ReceiveFilesWrite ==
    /\ fl_pc = "write"
    /\ LET output_path == OutputPathOf(fl_names[fl_idx], IdOf(fl_idx)) IN
       fl_disk' = [fl_disk EXCEPT ![output_path] = ContentOf(fl_idx)]
    /\ fl_idx' = fl_idx + 1
    /\ fl_pc' = IF fl_idx = Len(fl_names) THEN "done" ELSE "open"
    /\ UNCHANGED <<fl_names, fl_sizes>>
    /\ UNCHANGED <<resumeVars, trackerVars, portVars>>
    /\ UNCHANGED <<ptSideVars, headerVars, overlapVars, resumeKeyVars>>
    /\ UNCHANGED <<stopVars, offsetVars>>
    /\ UNCHANGED <<sessionVars, ptVars, nameVars, discVars>>

\* a FILE_LIST of MaxFiles entries has been accepted
FileListInit ==
    /\ fl_names \in [1..MaxFiles -> ListNames]
    /\ fl_sizes \in [1..MaxFiles -> 0..ChunkSize]
    /\ fl_idx = 1 /\ fl_pc = "open" /\ fl_disk = <<>>
    /\ ResumeKeysIdle /\ ControlStopIdle /\ OffsetIdle
    /\ ResumeIdle /\ TrackerIdle /\ PortIdle
    /\ PTSideIdle /\ HeaderIdle /\ OverlapIdle
    /\ NamesIdle /\ DiscoveryConstructed
    /\ pt_file_size = 0 /\ pt_skip = {} /\ pt_existing = {}
    /\ PTConstructed
    /\ SessionIdle

FileListNext == ReceiveFilesOpen \/ ReceiveFilesWrite

FileListSpec == FileListInit /\ [][FileListNext]_vars

(* ------------------------------------------------------------------ *)
(* ResumeManager: the states of several transfers in one directory    *)
(* ------------------------------------------------------------------ *)
\* file names and sender ids as bytes: "a", "ab", "#" and "c", "bc"
KeyNames == {<<97>>, <<97, 98>>, <<35>>}
KeySenders == {<<99>>, <<98, 99>>}

\* resume_manager.hpp lines 36-38: ResumeState::is_valid
is_valid(state) ==
    state.file_size > 0 /\ state.total_chunks > 0 /\ state.file_name # <<>>

\* the state of a transfer of file_name from sender_id, one chunk received
StateFor(file_name, sender_id) ==
    [file_name |-> file_name, file_size |-> 300, file_id |-> 0,
     chunk_size |-> 256, total_chunks |-> 2, received_chunks |-> <<0>>,
     sender_id |-> sender_id, session_token |-> <<107>>, timestamp |-> 0]

\* resume_manager.cpp lines 37-59: save of the state of (file_name,
\* sender_id) stamps it and writes the file get_state_path names
KeySave(file_name, sender_id) ==
    /\ LET path == get_state_path(file_name, sender_id) IN
       rk_dir' = [p \in (DOMAIN rk_dir) \cup {path} |->
                     IF p = path
                     THEN serialize_resume_state(
                              [StateFor(file_name, sender_id)
                                  EXCEPT !.timestamp = rs_clock])
                     ELSE rk_dir[p]]
    /\ rk_saved' = rk_saved \cup {<<file_name, sender_id>>}
    /\ rk_loaded' = <<>>
    /\ UNCHANGED <<resumeVars, trackerVars, portVars>>
    /\ UNCHANGED <<ptSideVars, headerVars, overlapVars, fileListVars>>
    /\ UNCHANGED <<stopVars, offsetVars>>
    /\ UNCHANGED <<sessionVars, ptVars, nameVars, discVars>>

\* resume_manager.cpp lines 61-86: load(file_name, sender_id)
KeyLoad(file_name, sender_id) ==
    /\ rk_loaded = <<>>
    /\ LET path == get_state_path(file_name, sender_id) IN
       rk_loaded' =
          <<[file_name |-> file_name, sender_id |-> sender_id,
             state |-> IF path \in DOMAIN rk_dir
                       THEN deserialize_resume_state(rk_dir[path])
                       ELSE EmptyResumeState]>>
    /\ UNCHANGED <<rk_dir, rk_saved>>
    /\ UNCHANGED <<resumeVars, trackerVars, portVars>>
    /\ UNCHANGED <<ptSideVars, headerVars, overlapVars, fileListVars>>
    /\ UNCHANGED <<stopVars, offsetVars>>
    /\ UNCHANGED <<sessionVars, ptVars, nameVars, discVars>>

\* an empty state directory
ResumeKeysInit ==
    /\ rk_dir = <<>> /\ rk_saved = {} /\ rk_loaded = <<>>
    /\ FileListIdle /\ ControlStopIdle /\ OffsetIdle
    /\ ResumeIdle /\ TrackerIdle /\ PortIdle
    /\ PTSideIdle /\ HeaderIdle /\ OverlapIdle
    /\ NamesIdle /\ DiscoveryConstructed
    /\ pt_file_size = 0 /\ pt_skip = {} /\ pt_existing = {}
    /\ PTConstructed
    /\ SessionIdle

ResumeKeysNext ==
    \/ \E f \in KeyNames : \E s \in KeySenders : KeySave(f, s)
    \/ \E f \in KeyNames : \E s \in KeySenders : KeyLoad(f, s)

ResumeKeysSpec == ResumeKeysInit /\ [][ResumeKeysNext]_vars

(* ------------------------------------------------------------------ *)
(* ControlServer: the accept thread and stop                          *)
(* ------------------------------------------------------------------ *)
\* control_server.cpp lines 30-88: start creates the accept thread
ControlStart ==
    /\ ~st_running /\ st_acc \in {"none", "exited"}
    /\ st_stop \in {"none", "returned"}
    /\ st_running' = TRUE /\ st_acc' = "test" /\ st_stop' = "none"
    /\ UNCHANGED <<st_peer, st_sent, st_read, st_late_cb,
                   st_completed>>
    /\ UNCHANGED <<resumeVars, trackerVars, portVars>>
    /\ UNCHANGED <<ptSideVars, headerVars, overlapVars, fileListVars>>
    /\ UNCHANGED <<resumeKeyVars, offsetVars>>
    /\ UNCHANGED <<sessionVars, ptVars, nameVars, discVars>>

\* line 108: while (m_running.load())
AcceptLoopTest ==
    /\ st_acc = "test"
    /\ st_acc' = IF st_running THEN "accept" ELSE "exited"
    /\ UNCHANGED <<st_running, st_stop, st_peer, st_sent, st_read, st_late_cb,
                   st_completed>>
    /\ UNCHANGED <<resumeVars, trackerVars, portVars>>
    /\ UNCHANGED <<ptSideVars, headerVars, overlapVars, fileListVars>>
    /\ UNCHANGED <<resumeKeyVars, offsetVars>>
    /\ UNCHANGED <<sessionVars, ptVars, nameVars, discVars>>

\* lines 109-115: accept fails after the timeout of 1000 ms, or at once on
\* the socket stop has closed
AcceptFails ==
    /\ st_acc = "accept"
    /\ st_acc' = "test"
    /\ UNCHANGED <<st_running, st_stop, st_peer, st_sent, st_read, st_late_cb,
                   st_completed>>
    /\ UNCHANGED <<resumeVars, trackerVars, portVars>>
    /\ UNCHANGED <<ptSideVars, headerVars, overlapVars, fileListVars>>
    /\ UNCHANGED <<resumeKeyVars, offsetVars>>
    /\ UNCHANGED <<sessionVars, ptVars, nameVars, discVars>>

\* lines 111-123: a peer connects while the server socket is open, and
\* handle_connection is called on the accept thread; the socket accept
\* returns has no receive timeout
AcceptConnection ==
    /\ st_acc = "accept" /\ st_stop = "none"
    /\ st_completed < MaxSessions
    /\ st_acc' = "read" /\ st_peer' = "open"
    /\ st_sent' = 0 /\ st_read' = 0
    /\ UNCHANGED <<st_running, st_stop, st_late_cb,
                   st_completed>>
    /\ UNCHANGED <<resumeVars, trackerVars, portVars>>
    /\ UNCHANGED <<ptSideVars, headerVars, overlapVars, fileListVars>>
    /\ UNCHANGED <<resumeKeyVars, offsetVars>>
    /\ UNCHANGED <<sessionVars, ptVars, nameVars, discVars>>

\* the peer writes the next message of a session
ConnectedPeerSends ==
    /\ st_peer = "open" /\ st_sent < SessionMessages
    /\ st_sent' = st_sent + 1
    /\ UNCHANGED <<st_running, st_acc, st_stop, st_peer, st_read, st_late_cb,
                   st_completed>>
    /\ UNCHANGED <<resumeVars, trackerVars, portVars>>
    /\ UNCHANGED <<ptSideVars, headerVars, overlapVars, fileListVars>>
    /\ UNCHANGED <<resumeKeyVars, offsetVars>>
    /\ UNCHANGED <<sessionVars, ptVars, nameVars, discVars>>

\* the peer closes the connection, or stays connected and sends no more
ConnectedPeerEnds ==
    /\ st_peer = "open"
    /\ st_peer' \in {"closed", "silent"}
    /\ UNCHANGED <<st_running, st_acc, st_stop, st_sent, st_read, st_late_cb,
                   st_completed>>
    /\ UNCHANGED <<resumeVars, trackerVars, portVars>>
    /\ UNCHANGED <<ptSideVars, headerVars, overlapVars, fileListVars>>
    /\ UNCHANGED <<resumeKeyVars, offsetVars>>
    /\ UNCHANGED <<sessionVars, ptVars, nameVars, discVars>>

\* handle_connection, lines 126-204: a blocking read returns the next
\* message the peer has sent; after the last one the session is over
HandleConnectionRead ==
    /\ st_acc = "read" /\ st_read < st_sent
    /\ st_read' = st_read + 1
    /\ st_acc' = IF st_read + 1 = SessionMessages THEN "cleanup" ELSE "read"
    /\ UNCHANGED <<st_running, st_stop, st_peer, st_sent, st_late_cb,
                   st_completed>>
    /\ UNCHANGED <<resumeVars, trackerVars, portVars>>
    /\ UNCHANGED <<ptSideVars, headerVars, overlapVars, fileListVars>>
    /\ UNCHANGED <<resumeKeyVars, offsetVars>>
    /\ UNCHANGED <<sessionVars, ptVars, nameVars, discVars>>

\* a blocking read fails: nothing is left to read and the peer has closed
HandleConnectionReadFails ==
    /\ st_acc = "read" /\ st_read = st_sent /\ st_peer = "closed"
    /\ st_acc' = "cleanup"
    /\ UNCHANGED <<st_running, st_stop, st_peer, st_sent, st_read, st_late_cb,
                   st_completed>>
    /\ UNCHANGED <<resumeVars, trackerVars, portVars>>
    /\ UNCHANGED <<ptSideVars, headerVars, overlapVars, fileListVars>>
    /\ UNCHANGED <<resumeKeyVars, offsetVars>>
    /\ UNCHANGED <<sessionVars, ptVars, nameVars, discVars>>

\* lines 211-217: cleanup closes the client socket and calls m_on_complete
HandleConnectionCleanup ==
    /\ st_acc = "cleanup"
    /\ st_acc' = "test" /\ st_peer' = "none"
    /\ st_late_cb' = (st_late_cb \/ st_stop = "returned")
    /\ st_completed' = st_completed + 1
    /\ UNCHANGED <<st_running, st_stop, st_sent, st_read>>
    /\ UNCHANGED <<resumeVars, trackerVars, portVars>>
    /\ UNCHANGED <<ptSideVars, headerVars, overlapVars, fileListVars>>
    /\ UNCHANGED <<resumeKeyVars, offsetVars>>
    /\ UNCHANGED <<sessionVars, ptVars, nameVars, discVars>>

\* lines 90-98: stop clears m_running and closes the server socket; a
\* server that is not running is left alone
ControlStopBegin ==
    /\ st_stop = "none" /\ st_acc # "none"
    /\ IF st_running
       THEN st_running' = FALSE /\ st_stop' = "join"
       ELSE st_stop' = "returned" /\ UNCHANGED st_running
    /\ UNCHANGED <<st_acc, st_peer, st_sent, st_read, st_late_cb,
                   st_completed>>
    /\ UNCHANGED <<resumeVars, trackerVars, portVars>>
    /\ UNCHANGED <<ptSideVars, headerVars, overlapVars, fileListVars>>
    /\ UNCHANGED <<resumeKeyVars, offsetVars>>
    /\ UNCHANGED <<sessionVars, ptVars, nameVars, discVars>>

\* lines 99-103: m_accept_thread.join() returns when the thread has ended
ControlStopJoin ==
    /\ st_stop = "join" /\ st_acc = "exited"
    /\ st_stop' = "returned"
    /\ UNCHANGED <<st_running, st_acc, st_peer, st_sent, st_read, st_late_cb,
                   st_completed>>
    /\ UNCHANGED <<resumeVars, trackerVars, portVars>>
    /\ UNCHANGED <<ptSideVars, headerVars, overlapVars, fileListVars>>
    /\ UNCHANGED <<resumeKeyVars, offsetVars>>
    /\ UNCHANGED <<sessionVars, ptVars, nameVars, discVars>>

\* a ControlServer that has not been started
ControlStopInit ==
    /\ ControlStopIdle /\ OffsetIdle
    /\ FileListIdle /\ ResumeKeysIdle
    /\ ResumeIdle /\ TrackerIdle /\ PortIdle
    /\ PTSideIdle /\ HeaderIdle /\ OverlapIdle
    /\ NamesIdle /\ DiscoveryConstructed
    /\ pt_file_size = 0 /\ pt_skip = {} /\ pt_existing = {}
    /\ PTConstructed
    /\ SessionIdle

ControlStopNext ==
    \/ ControlStart
    \/ AcceptLoopTest
    \/ AcceptFails
    \/ AcceptConnection
    \/ ConnectedPeerSends
    \/ ConnectedPeerEnds
    \/ HandleConnectionRead
    \/ HandleConnectionReadFails
    \/ HandleConnectionCleanup
    \/ ControlStopBegin
    \/ ControlStopJoin

ControlStopSpec == ControlStopInit /\ [][ControlStopNext]_vars

(* ------------------------------------------------------------------ *)
(* ChunkHeader::offset of the senders                                 *)
(* ------------------------------------------------------------------ *)
\* 2^16: a uint32_t is kept as its two halves [hi, lo], a uint64_t as
\* [upper, lo] with lo its low 16 bits and upper the bits above them
Half == 2 ^ 16

\* static_cast<uint64_t>(chunk_id) * chunk_size (parallel_transfer.cpp
\* line 129), the product taken half by half
Offset64(chunk_id) ==
    LET low == chunk_id * (TELEPORT_CHUNK_SIZE % Half) IN
    [upper |-> chunk_id * (TELEPORT_CHUNK_SIZE \div Half) + (low \div Half),
     lo |-> low % Half]

\* static_cast<uint32_t>(x): the low 32 bits
TruncateU32(x) == [hi |-> x.upper % Half, lo |-> x.lo]

\* x % UINT32_MAX for x below 2^48: with x = q * 2^32 + r and
\* 2^32 = UINT32_MAX + 1, x is congruent to q + r, which is below
\* 2 * UINT32_MAX
ModUint32Max(x) ==
    LET q == x.upper \div Half
        t == x.lo + q
        s == [hi |-> (x.upper % Half) + (t \div Half), lo |-> t % Half]
    IN  IF s.hi >= Half
        THEN \* s - UINT32_MAX = s - 2^32 + 1
             [hi |-> s.hi - Half, lo |-> s.lo + 1]
        ELSE IF s.hi = Half - 1 /\ s.lo = Half - 1
        THEN [hi |-> 0, lo |-> 0]
        ELSE s

\* parallel_transfer.cpp line 286:
\* static_cast<uint32_t>(work.offset % UINT32_MAX)
SenderWorkerOffset(chunk_id) == ModUint32Max(Offset64(chunk_id))

\* control_client.cpp line 352: static_cast<uint32_t>(file.size -
\* bytes_remaining), chunk_id full chunks having been sent
TransferFileOffset(chunk_id) == TruncateU32(Offset64(chunk_id))

\* transfer_manager.cpp line 72: chunk_id * chunk_size in uint32_t
TransferManagerOffset(chunk_id) == TruncateU32(Offset64(chunk_id))

OffsetOf(sender, chunk_id) ==
    CASE sender = "ParallelTransfer" -> SenderWorkerOffset(chunk_id)
      [] sender = "ControlClient" -> TransferFileOffset(chunk_id)
      [] sender = "TransferManager" -> TransferManagerOffset(chunk_id)

ChunkSenders == {"ParallelTransfer", "ControlClient", "TransferManager"}

\* the sender builds the header of chunk of_chunk_id and goes to the next
\* chunk
EmitChunkHeader(sender) ==
    /\ of_sender = sender
    /\ of_chunk_id <= MaxChunkId
    /\ of_header' = <<[chunk_id |-> of_chunk_id,
                       offset |-> OffsetOf(sender, of_chunk_id)]>>
    /\ of_chunk_id' = of_chunk_id + 1
    /\ UNCHANGED of_sender
    /\ UNCHANGED <<resumeVars, trackerVars, portVars>>
    /\ UNCHANGED <<ptSideVars, headerVars, overlapVars, fileListVars>>
    /\ UNCHANGED <<resumeKeyVars, stopVars>>
    /\ UNCHANGED <<sessionVars, ptVars, nameVars, discVars>>

\* one of the senders is about to send a chunk of a file of more than
\* 4 GiB
OffsetInit ==
    /\ of_sender \in ChunkSenders
    /\ of_chunk_id \in 0..MaxChunkId
    /\ of_header = <<>>
    /\ FileListIdle /\ ResumeKeysIdle /\ ControlStopIdle
    /\ ResumeIdle /\ TrackerIdle /\ PortIdle
    /\ PTSideIdle /\ HeaderIdle /\ OverlapIdle
    /\ NamesIdle /\ DiscoveryConstructed
    /\ pt_file_size = 0 /\ pt_skip = {} /\ pt_existing = {}
    /\ PTConstructed
    /\ SessionIdle

OffsetNext ==
    \/ EmitChunkHeader("ParallelTransfer")
    \/ EmitChunkHeader("ControlClient")
    \/ EmitChunkHeader("TransferManager")

OffsetSpec == OffsetInit /\ [][OffsetNext]_vars

(* ------------------------------------------------------------------ *)
(* History of the control connection                                  *)
(* ------------------------------------------------------------------ *)
ClientSent(t) == \E i \in 1..Len(c2s) : c2s[i].type = t
ServerSent(t) == \E i \in 1..Len(s2c) : s2c[i].type = t
ClientReceived(t) == \E i \in 1..s2c_rd : s2c[i].type = t
ServerReceived(t) == \E i \in 1..c2s_rd : c2s[i].type = t

\* the content of source file i (index in files), byte by byte
SourceBytes(i) == [k \in 1..files[i] |-> k - 1]

\* the receiver holds file i complete
FileDelivered(i) == i \in cs_created /\ cs_disk[i] = SourceBytes(i)

ClientReturned == cc_pc \in {"returned", "api_returned"}
ServerDone == cs_pc = "done"

\* messages by which the receiver tells the peer that the session failed
IsFailureNotice(m) ==
    \/ m.type = "ERROR" /\ m.flag
    \/ m.type = "COMPLETE" /\ ~m.flag

(* ------------------------------------------------------------------ *)
(* C1                                                                 *)
(* ------------------------------------------------------------------ *)
\* C1: a sender session reported as successful (send_files returns OK and
\* on_complete fires with TELEPORT_OK) implies that the receiver wrote every
\* announced byte of every file and that the sender received
\* COMPLETE{success=true}.
C1_SuccessMeansDelivered ==
    (ClientReturned /\ cc_on_complete = <<TELEPORT_OK>>) =>
        /\ \A i \in 1..Len(files) : FileDelivered(i)
        /\ \E i \in 1..s2c_rd : s2c[i].type = "COMPLETE" /\ s2c[i].flag

(* ------------------------------------------------------------------ *)
(* C5                                                                 *)
(* ------------------------------------------------------------------ *)
\* C5: when the receiver holds a valid resume state for file 0, chunk data of
\* file 0 flows only after the receiver sent RESUME_REQUEST, and the sender
\* sends no chunk whose id is in the state's received_chunks.
C5_ResumeHonoured ==
    resume_store.valid =>
        \A i \in 1..Len(c2s) :
            (c2s[i].type = "CHUNK" /\ c2s[i].file_id = 0) =>
                /\ ServerSent("RESUME_REQUEST")
                /\ c2s[i].chunk_id \notin resume_store.received_chunks

(* ------------------------------------------------------------------ *)
(* C6                                                                 *)
(* ------------------------------------------------------------------ *)
\* ranks of the frame types in the order of the dialogue
SenderRank(t) ==
    CASE t = "HANDSHAKE" -> 1
      [] t = "FILE_LIST" -> 2
      [] t = "START" -> 3
      [] t = "CHUNK" -> 4
      [] OTHER -> 0

ReceiverRank(t) ==
    CASE t = "HANDSHAKE_ACK" -> 1
      [] t = "ACCEPT" -> 2
      [] t = "REJECT" -> 2
      [] t = "COMPLETE" -> 3
      [] t = "ERROR" -> 4
      [] OTHER -> 0

\* C6: the dialogue is ordered HANDSHAKE, HANDSHAKE_ACK, FILE_LIST, ACCEPT or
\* REJECT, START, chunk frames, COMPLETE: the sender sends FILE_LIST only
\* after it received HANDSHAKE_ACK, START and chunk frames only after it
\* received ACCEPT; the receiver answers ACCEPT or REJECT only after line 173
\* has evaluated the incoming-transfer callback (called once when one is
\* registered), and sends COMPLETE only after the last chunk frame.
C6_DialogueOrder ==
    /\ \A i \in 1..Len(c2s) : SenderRank(c2s[i].type) > 0
    /\ \A i \in 1..Len(s2c) : ReceiverRank(s2c[i].type) > 0
    /\ \A i, j \in 1..Len(c2s) :
          i < j => /\ SenderRank(c2s[i].type) <= SenderRank(c2s[j].type)
                   /\ c2s[j].type # "CHUNK" => c2s[i].type # c2s[j].type
    /\ \A i, j \in 1..Len(s2c) :
          i < j => ReceiverRank(s2c[i].type) < ReceiverRank(s2c[j].type)
    /\ ServerSent("HANDSHAKE_ACK") => ServerReceived("HANDSHAKE")
    /\ ClientSent("FILE_LIST") => ClientReceived("HANDSHAKE_ACK")
    /\ (ServerSent("ACCEPT") \/ ServerSent("REJECT")) =>
          /\ ServerReceived("FILE_LIST")
          /\ cs_pc \notin {"accept", "handshake", "file_list", "incoming"}
          /\ on_incoming # "none" => cs_cb_calls = 1
    /\ ServerSent("ACCEPT") => on_incoming = "accept"
    /\ (ClientSent("START") \/ ClientSent("CHUNK")) => ClientReceived("ACCEPT")
    /\ ServerSent("COMPLETE") =>
          /\ ServerReceived("START")
          /\ c2s_rd = Len(c2s)

\* C6 witness: a whole dialogue with chunk frames has taken place
C6_Witness ==
    /\ ClientReceived("COMPLETE")
    /\ ServerReceived("CHUNK")
    /\ cs_cb_calls = 1

(* ------------------------------------------------------------------ *)
(* C7                                                                 *)
(* ------------------------------------------------------------------ *)
VersionMismatchSeen ==
    /\ c2s_rd >= 1
    /\ c2s[1].type = "HANDSHAKE"
    /\ c2s[1].ver # TELEPORT_PROTOCOL_VERSION

RejectDecided ==
    /\ on_incoming # "accept"
    /\ ServerReceived("FILE_LIST")
    /\ cs_pc \in {"cleanup", "done"}

ServerAborted ==
    /\ cs_closed
    /\ cs_final_error \notin {TELEPORT_OK, TELEPORT_ERROR_REJECTED}

\* C9: a receiver that aborts a session on a protocol or I/O error has sent
\* exactly one ERROR{fatal=true} or COMPLETE{success=false} before closing.
C9_OneFailureNotice ==
    ServerAborted =>
        Cardinality({i \in 1..Len(s2c) : IsFailureNotice(s2c[i])}) = 1

(* ------------------------------------------------------------------ *)
(* C10                                                                *)
(* ------------------------------------------------------------------ *)
ClientGotInvalid == \E i \in 1..s2c_rd : s2c[i].schema # "ok"
ServerGotInvalid == \E i \in 1..c2s_rd : c2s[i].schema # "ok"

\* C10: an endpoint that received a control message with a schema-invalid
\* payload ends the session with on_complete(Protocol), and goes no further
\* in the dialogue.
C10_InvalidPayloadIsProtocolError ==
    /\ (ServerGotInvalid /\ ServerDone) =>
          cs_on_complete = <<TELEPORT_ERROR_PROTOCOL>>
    /\ (ClientGotInvalid /\ ClientReturned) =>
          cc_on_complete = <<TELEPORT_ERROR_PROTOCOL>>

(* ------------------------------------------------------------------ *)
(* ParallelTransfer: what has been sent and received                  *)
(* ------------------------------------------------------------------ *)
PTTotal == TotalChunks(pt_file_size)

\* the positions <<stream, index>> of the chunk frames sent so far
SentFrames == {<<i, k>> : i \in Streams, k \in 1..(2 * PTMaxFileSize)} \cap
              {x \in Streams \X (1..(2 * PTMaxFileSize)) :
                  x[2] <= Len(pt_stream[x[1]])}

FrameAt(x) == pt_stream[x[1]][x[2]]

SentIds == {FrameAt(x).chunk_id : x \in SentFrames}

\* the source file, byte by byte, over the positions the model keeps
SourceContent == [p \in FilePositions |-> IF p < pt_file_size THEN p ELSE Hole]

\* every chunk of the file has been received and written by a worker
AllChunksReceived == \A c \in ChunkIds(pt_file_size) : c \in pr_written

(* ------------------------------------------------------------------ *)
(* C2                                                                 *)
(* ------------------------------------------------------------------ *)
\* C2: receive_file returns success only if every chunk id in
\* [0, total_chunks) is marked in the tracker (population = total_chunks)
\* and has been written to the output file (in this call, or before it for
\* the chunks given as existing).
C2_SuccessMeansAllChunks ==
    (pr_result = <<TELEPORT_OK>>) =>
        /\ m_tracker.m_received = PTTotal
        /\ \A c \in ChunkIds(pt_file_size) :
              /\ c \in m_tracker.m_chunks
              /\ c \in pr_written \cup pt_existing

(* ------------------------------------------------------------------ *)
(* C3                                                                 *)
(* ------------------------------------------------------------------ *)
\* C3: whatever the interleaving of the receiver workers and the arrival
\* order of the frames, the bytes of every chunk a worker has written lie at
\* offset chunk_id * chunk_size of the output file, at most one worker is
\* between its seek and its write, and once every chunk has been received
\* the output file equals the source file.
C3_OutputEqualsSource ==
    pr_pc \in {"receiving", "returned"} =>
        /\ \A c \in pr_written :
              \A k \in 0..(WorkSize(pt_file_size, c) - 1) :
                  m_output_file.content[c * ChunkSize + k] = c * ChunkSize + k
        /\ Cardinality({i \in Streams : pr_wpc[i] = "write"}) <= 1
        /\ AllChunksReceived => m_output_file.content = SourceContent

\* C3 witness: a file of several chunks has been received whole, its chunks
\* having been taken from different streams, and receive_file has returned
C3_Witness ==
    /\ PTTotal >= 2
    /\ AllChunksReceived
    /\ \A i \in Streams : pt_rd[i] >= 1
    /\ pr_result = <<TELEPORT_OK>>
    /\ m_output_file.content = SourceContent

(* ------------------------------------------------------------------ *)
(* C4                                                                 *)
(* ------------------------------------------------------------------ *)
\* C4: the sender workers never send a chunk twice and never send a chunk of
\* the skip set, and a send_file run that returns without error or
\* cancellation has sent exactly one frame for each chunk id in
\* [0, total_chunks) outside the skip set.
C4_EachChunkOnce ==
    /\ \A x, y \in SentFrames :
          FrameAt(x).chunk_id = FrameAt(y).chunk_id => x = y
    /\ SentIds \cap pt_skip = {}
    /\ SentIds \subseteq ChunkIds(pt_file_size)
    /\ (ps_result = <<TELEPORT_OK>> /\ ps_errors = 0) =>
          SentIds = ChunkIds(pt_file_size) \ pt_skip

\* C4 witness: send_file has returned after sending several chunks, spread
\* over the streams, while skipping one
C4_Witness ==
    /\ ps_result = <<TELEPORT_OK>>
    /\ ps_errors = 0
    /\ pt_skip # {}
    /\ \A i \in Streams : Len(pt_stream[i]) >= 1
    /\ SentIds = ChunkIds(pt_file_size) \ pt_skip

(* ------------------------------------------------------------------ *)
(* ControlClient: pause, resume and cancel during a session           *)
(* ------------------------------------------------------------------ *)
RECURSIVE SumChunks(_)
SumChunks(n) == IF n = 0 THEN 0 ELSE SumChunks(n - 1) + TotalChunks(files[n])

\* chunks of the session
TotalChunksAll == SumChunks(Len(files))

\* a chunk was being read or sent when the call was made
InProgress(call) == IF call.pc = "send" THEN 1 ELSE 0

\* chunks left to send at a call, the one in progress not counted
ChunksLeft(call) == TotalChunksAll - call.sent - InProgress(call)

\* the cancel() calls made in Transferring or Paused while transfer_files
\* runs with chunks left to send
CancelCalls ==
    {k \in 1..Len(cc_calls) :
        /\ cc_calls[k].op = "cancel"
        /\ cc_calls[k].state \in {"Transferring", "Paused"}
        /\ cc_calls[k].pc \in {"start", "file", "open", "chunk", "send",
                               "paused_wait"}
        /\ ChunksLeft(cc_calls[k]) > 0}

\* error codes of a failed open or read of a source file and of a failed send
SenderIoErrors ==
    {TELEPORT_ERROR_FILE_OPEN, TELEPORT_ERROR_FILE_READ,
     TELEPORT_ERROR_SOCKET_SEND}

(* ------------------------------------------------------------------ *)
(* C11                                                                *)
(* ------------------------------------------------------------------ *)
\* C11 as stated: after cancel() on a sender session in Transferring or
\* Paused with chunks left to send, the dispatch loop does not stay waiting,
\* no chunk is sent after the one in progress, send_files ends with Cancelled
\* and on_complete fires exactly once, with Cancelled.
C11_CancelEndsCancelled ==
    \A k \in CancelCalls :
        /\ cc_pc # "paused_wait"
        /\ ChunksSent <= cc_calls[k].sent + InProgress(cc_calls[k])
        /\ ClientReturned =>
              /\ cc_result = <<TELEPORT_ERROR_CANCELLED>>
              /\ cc_on_complete = <<TELEPORT_ERROR_CANCELLED>>

\* C11 amended: after such a cancel() the dispatch loop does not stay
\* waiting, no chunk is sent after the one in progress, and send_files ends
\* with Cancelled, or with the error of an open or read of a source file or
\* of a send that failed before the loop tested the flag; it never ends with
\* success, and on_complete fires exactly once, with the code send_files
\* ends with.
C11_CancelEndsSession ==
    \A k \in CancelCalls :
        /\ cc_pc # "paused_wait"
        /\ ChunksSent <= cc_calls[k].sent + InProgress(cc_calls[k])
        /\ ClientReturned =>
              /\ Len(cc_result) = 1
              /\ cc_on_complete = cc_result
              /\ cc_result[1] \in {TELEPORT_ERROR_CANCELLED} \cup SenderIoErrors

\* C11 witness: cancel() called while the loop waited in Paused with chunks
\* left; the loop woke, sent nothing more, and the session ended Cancelled
C11_Witness ==
    \E k \in CancelCalls :
        /\ cc_calls[k].state = "Paused"
        /\ cc_calls[k].pc = "paused_wait"
        /\ ChunksSent = cc_calls[k].sent
        /\ ClientReturned
        /\ cc_result = <<TELEPORT_ERROR_CANCELLED>>
        /\ cc_on_complete = <<TELEPORT_ERROR_CANCELLED>>

(* ------------------------------------------------------------------ *)
(* ParallelTransfer: pause, resume and cancel during send_file        *)
(* ------------------------------------------------------------------ *)
\* the call of op, if made
PTCalls(op) == {k \in 1..Len(ps_calls) : ps_calls[k].op = op}

\* pause() has been called and neither resume() nor cancel() since
PausedSince(k) ==
    /\ ps_calls[k].op = "pause"
    /\ \A j \in (k + 1)..Len(ps_calls) : ps_calls[j].op = "pause"

\* no sender worker can take a step: each has exited or is blocked in
\* m_pause_cv.wait
SenderWorkersAtRest ==
    /\ ps_pc = "sending"
    /\ \A i \in Streams : ps_wpc[i] \in {"done", "waiting"}

SenderWorkersExited == \A i \in Streams : ps_wpc[i] = "done"

(* ------------------------------------------------------------------ *)
(* C12                                                                *)
(* ------------------------------------------------------------------ *)
\* C12: after pause() each sending worker sends at most one further chunk
\* until resume() or cancel() is called; once the transfer is resumed no
\* worker stays blocked, so the workers that are left at rest have all
\* finished, and a send_file that then returns without error has sent every
\* chunk exactly once.
C12_PauseThenResume ==
    /\ \A k \in PTCalls("pause") :
          PausedSince(k) =>
              \A i \in Streams : Len(pt_stream[i]) <= ps_calls[k].sent[i] + 1
    /\ (SenderWorkersAtRest /\ ~ps_paused /\ ~ps_cancelled) =>
          SenderWorkersExited
    /\ (ps_result = <<TELEPORT_OK>> /\ ps_errors = 0) =>
          /\ SentIds = ChunkIds(pt_file_size) \ pt_skip
          /\ \A x, y \in SentFrames :
                FrameAt(x).chunk_id = FrameAt(y).chunk_id => x = y

(* ------------------------------------------------------------------ *)
(* C13                                                                *)
(* ------------------------------------------------------------------ *)
\* C13: once the cancelled flag of a transfer is set, by cancel() or by a
\* worker that hit an error, no worker stays blocked: the workers that are
\* left at rest have all exited, and the send_file that returns, returns
\* Cancelled.
C13_CancelStopsWorkers ==
    /\ (SenderWorkersAtRest /\ ps_cancelled) => SenderWorkersExited
    /\ (ps_cancelled /\ ps_pc = "returned") =>
          ps_result = <<TELEPORT_ERROR_CANCELLED>>

(* ------------------------------------------------------------------ *)
(* C14                                                                *)
(* ------------------------------------------------------------------ *)
\* C14: a failure while a worker processes a chunk (open or read of the
\* source, send, receive that fails or ends early, write) sets the cancelled
\* flag of the transfer, and the send_file or receive_file it happened in
\* does not return success.
C14_ChunkFailureIsFatal ==
    /\ ps_errors > 0 => ps_cancelled
    /\ (ps_pc = "returned" /\ ps_errors > 0) => ps_result # <<TELEPORT_OK>>
    /\ pr_errors > 0 => pr_cancelled
    /\ (pr_pc = "returned" /\ pr_errors > 0) => pr_result # <<TELEPORT_OK>>

(* ------------------------------------------------------------------ *)
(* C15                                                                *)
(* ------------------------------------------------------------------ *)
\* C15: once teleport_destroy has returned, the thread that runs the
\* sender session takes no further step in the engine: it invokes no
\* callback, touches no member of the ControlClient and stores no handle.
C15_NothingAfterDestroy ==
    [][td_pc = "returned" => UNCHANGED <<clientVars, out_transfer>>]_vars

(* ------------------------------------------------------------------ *)
(* C16                                                                *)
(* ------------------------------------------------------------------ *)
\* C16: while the session teleport_send_files started is transferring or
\* paused, the caller holds the transfer handle, so that a pause, resume or
\* cancel through the handle can reach the session before it completes.
C16_HandleWhileActive ==
    m_state \in {"Transferring", "Paused"} => out_transfer

(* ------------------------------------------------------------------ *)
(* C17                                                                *)
(* ------------------------------------------------------------------ *)
\* C17: for every raw name, the name sanitize_filename returns contains
\* none of / \ NUL < > : " | ? *, neither begins nor ends with '.' or
\* space, is at most 240 bytes long (MaxSanitizedLen here), and is none
\* of "", "." and "..".
C17_SanitizedNameIsSafe ==
    sn_result # <<>> =>
        /\ \A i \in 1..Len(sn_result) :
               sn_result[i] \notin InvalidChars \cup {"NUL"}
        /\ sn_result[1] \notin {".", " "}
        /\ sn_result[Len(sn_result)] \notin {".", " "}
        /\ Len(sn_result) <= MaxSanitizedLen
        /\ sn_result \notin {<<".">>, <<".", ".">>}

(* ------------------------------------------------------------------ *)
(* C18                                                                *)
(* ------------------------------------------------------------------ *)
\* the name without its leading parent-directory components
RECURSIVE DropParents(_)
DropParents(s) ==
    IF Len(s) >= 3 /\ SubSeq(s, 1, 3) = <<".", ".", "/">>
    THEN DropParents(SubSeq(s, 4, Len(s)))
    ELSE s

\* the path with each separator replaced by '_'
Underscored(s) == [i \in 1..Len(s) |-> IF s[i] = "/" THEN "_" ELSE s[i]]

\* C18: a name made of parent-directory components followed by a path,
\* like "../../etc/passwd", is sanitized to the remaining path with its
\* separators replaced by '_' ("etc_passwd"), and with output_dir "/tmp/t"
\* ControlServer::receive_files writes the file to /tmp/t/etc_passwd.
C18_TraversalLeavesRemainder ==
    raw_name \in TraversalNames =>
        /\ sn_result # <<>> =>
               sn_result = Underscored(DropParents(raw_name))
        /\ \A o \in Opened("ControlServer") :
               o.path = OutputDir \o <<"/">>
                           \o Underscored(DropParents(raw_name))

(* ------------------------------------------------------------------ *)
(* C19                                                                *)
(* ------------------------------------------------------------------ *)
\* the components of a path, split at '/'
RECURSIVE Components(_, _)
Components(s, cur) ==
    IF s = <<>> THEN <<cur>>
    ELSE IF Head(s) = "/" THEN <<cur>> \o Components(Tail(s), <<>>)
    ELSE Components(Tail(s), cur \o <<Head(s)>>)

\* the directories the file system walks through for the components: ""
\* and "." stay, ".." goes to the parent
RECURSIVE Resolve(_, _)
Resolve(comps, at) ==
    IF comps = <<>> THEN at
    ELSE LET c == Head(comps) IN
         IF c = <<>> \/ c = <<".">> THEN Resolve(Tail(comps), at)
         ELSE IF c = <<".", ".">>
              THEN Resolve(Tail(comps),
                           IF at = <<>> THEN at
                           ELSE SubSeq(at, 1, Len(at) - 1))
         ELSE Resolve(Tail(comps), at \o <<c>>)

ResolvedPath(path) == Resolve(Components(path, <<>>), <<>>)

\* the file the path names lies in output_dir or below it
InsideOutputDir(path) ==
    LET dir == ResolvedPath(OutputDir)
        file == ResolvedPath(path)
    IN  /\ Len(file) > Len(dir)
        /\ SubSeq(file, 1, Len(dir)) = dir

\* C19: every file a receiver opens for an incoming transfer has the path
\* output_dir + "/" + sanitize_filename(name), on every receive path, so
\* that no received file is created outside output_dir.
C19_EveryPathSanitized ==
    \A o \in rx_opened :
        /\ o.path = OutputDir \o <<"/">> \o sanitize_filename(o.name)
        /\ InsideOutputDir(o.path)

\* the part of C19 that ControlServer::receive_files keeps
C19_ControlServerInside ==
    \A o \in Opened("ControlServer") : InsideOutputDir(o.path)

(* ------------------------------------------------------------------ *)
(* C20                                                                *)
(* ------------------------------------------------------------------ *)
\* the registry as teleport_get_devices reports it holds the peer
InRegistry(p) == \E i \in 1..Len(DeviceListAll) : DeviceListAll[i] = p

\* an announcement of the peer reached the listener within the last
\* device_ttl_ms
HeardWithinTtl(p) == d_heard[p] >= 0 /\ d_now - d_heard[p] <= DeviceTtl

\* C20: at every moment while discovery is running, the registry contains
\* a peer if and only if an announcement of the peer reached this instance
\* within the last device_ttl_ms.
C20_RegistryIffWithinTtl ==
    disc_running => \A p \in Peers : InRegistry(p) <=> HeardWithinTtl(p)

\* what DeviceList::contains answers does follow the announcements
C20_ContainsIffWithinTtl ==
    disc_running =>
        \A p \in Peers : DeviceListContains(p) <=> HeardWithinTtl(p)

(* ------------------------------------------------------------------ *)
(* C21                                                                *)
(* ------------------------------------------------------------------ *)
\* the position of an id in an order vector that holds it
Pos(order, p) == CHOOSE i \in 1..Len(order) : order[i] = p

\* the order vector holds exactly the ids of the map, each once, and
\* get_by_index and all() read it: get_by_index(i) is the i-th device of
\* all(), and is empty exactly when i >= count()
OrderMatchesMap ==
    /\ \A i \in 1..Len(m_order) : m_order[i] \in DOMAIN m_devices
    /\ \A p \in DOMAIN m_devices :
          Cardinality({i \in 1..Len(m_order) : m_order[i] = p}) = 1
    /\ \A i \in 0..(NumPeers + 1) :
          /\ DeviceListGetByIndex(i) = <<>> <=> i >= DeviceListCount
          /\ i < DeviceListCount =>
                 DeviceListGetByIndex(i) = <<DeviceListAll[i + 1]>>

\* one call keeps the devices that survive it in their order, puts a new
\* device behind them, and leaves the order vector as it is when the set
\* of ids does not change (an upsert of an id already present)
OrderStep ==
    LET before == m_order
        after == m_order'
        kept == (DOMAIN m_devices) \cap (DOMAIN m_devices')
        new == (DOMAIN m_devices') \ (DOMAIN m_devices)
    IN  /\ \A p \in kept : \A q \in kept :
               Pos(before, p) < Pos(before, q)
                   => Pos(after, p) < Pos(after, q)
        /\ \A p \in new : \A q \in kept : Pos(after, q) < Pos(after, p)
        /\ DOMAIN m_devices' = DOMAIN m_devices => after = before

RemovesExactlyExpired ==
    LET old == {p \in DOMAIN m_devices : d_now - m_devices[p] > DeviceTtl}
    IN  /\ dl_expired' = old
        /\ DOMAIN m_devices' = (DOMAIN m_devices) \ old
        /\ \A p \in DOMAIN m_devices :
               d_now - m_devices[p] <= DeviceTtl =>
                   /\ p \in DOMAIN m_devices'
                   /\ m_devices'[p] = m_devices[p]
        /\ \A p \in dl_expired' :
               /\ p \notin DOMAIN m_devices'
               /\ \A i \in 1..Len(m_order') : m_order'[i] # p

\* C22: remove_expired() removes exactly the entries with
\* now - last_seen_ms > ttl and returns exactly their ids; every entry with
\* now - last_seen_ms <= ttl stays; after the call the registry contains
\* none of the returned ids.
C22_RemoveExpiredExact ==
    [][DeviceListRemoveExpired => RemovesExactlyExpired]_vars

\* after a call that returned an id, a device whose age is exactly the TTL
\* is in the registry
C22_Witness ==
    /\ dl_expired # {}
    /\ dl_expired \cap DOMAIN m_devices = {}
    /\ \E p \in DOMAIN m_devices : d_now - m_devices[p] = DeviceTtl

(* ------------------------------------------------------------------ *)
(* C23                                                                *)
(* ------------------------------------------------------------------ *)
\* C23: a call of start_discovery while discovery is Running fails with
\* AlreadyRunning and changes nothing: the threads, the registry, and the
\* found/lost callbacks and user data registered by the start that
\* succeeded remain in effect.
C23_FailedStartChangesNothing ==
    [][\A cb \in CallbackSets :
          (disc_running /\ TeleportStartDiscovery(cb)) =>
              /\ api_result' = TELEPORT_ERROR_ALREADY_RUNNING
              /\ eng_cb' = started_cb
              /\ UNCHANGED <<disc_running, m_devices, m_order, lis_pc,
                             bc_pc, exp_pc, lis_running, bc_running>>]_vars

(* ------------------------------------------------------------------ *)
(* C24                                                                *)
(* ------------------------------------------------------------------ *)
\* when the caller has been told discovery is stopped, no thread of it
\* exists, its sockets are closed, and no callback has fired in such a
\* moment
StoppedMeansQuiet ==
    /\ ~cb_in_stopped
    /\ d_api = "Stopped" =>
           /\ lis_pc = "none" /\ bc_pc = "none" /\ exp_pc = "none"
           /\ ~lis_sock /\ ~bc_sock
           /\ ~disc_running /\ ~lis_running /\ ~bc_running

SavedAndLoaded == rs_saved = <<TRUE>> /\ rs_loaded # <<>>

\* C25: for every ResumeState R, load(R.file_name, R.sender_id) after
\* save(R) returns a state equal to R in every field: file_name,
\* file_size, file_id, chunk_size, total_chunks, received_chunks,
\* sender_id, session_token and timestamp.
C25_RoundTripsExactly ==
    SavedAndLoaded => rs_loaded[1] = rs_state

\* C25 as the code keeps it: every field but the timestamp comes back as
\* given; the timestamp that comes back is the time of the save
C25_RoundTripsButTimestamp ==
    SavedAndLoaded =>
        /\ rs_loaded[1] = [rs_state EXCEPT !.timestamp = rs_loaded[1].timestamp]
        /\ rs_loaded[1].timestamp = rs_clock

\* a state with chunks out of order and a size of three bytes, saved at a
\* time other than its timestamp, has been loaded
C25_Witness ==
    /\ SavedAndLoaded
    /\ rs_state.received_chunks = <<1, 0>>
    /\ rs_state.file_size = 70000
    /\ rs_state.file_name = <<116, 46, 98>>
    /\ rs_state.timestamp # rs_clock

(* ------------------------------------------------------------------ *)
(* C26                                                                *)
(* ------------------------------------------------------------------ *)
\* the chunk ids below m_total that mark_received has been called with
MarkedBelowTotal == {c \in ct_marked : c < ct_total}

\* the counter is the number of distinct marked ids below n, those ids are
\* the bits set, and is_complete() says whether they are all of [0, n)
TrackerCountsDistinct ==
    /\ ct_tracker.m_chunks = MarkedBelowTotal
    /\ ct_tracker.m_received = Cardinality(MarkedBelowTotal)
    /\ IsComplete(ct_tracker, ct_total)
           <=> \A c \in 0..(ct_total - 1) : c \in ct_marked

\* C26: for a ChunkTracker with total_chunks = n, after any sequence of
\* mark_received calls (any ids, repeated ids and ids >= n included) a bit
\* once set is never cleared, received_count is the number of distinct
\* marked ids below n, and is_complete() holds iff every id in [0, n) has
\* been marked.
C26_TrackerMonotoneAndExact ==
    /\ []TrackerCountsDistinct
    /\ [][ct_tracker.m_chunks \subseteq ct_tracker'.m_chunks]_vars

\* a tracker of three chunks is complete after calls that included an id
\* past its end
C26_Witness ==
    /\ ct_total = 3
    /\ IsComplete(ct_tracker, ct_total)
    /\ \E c \in ct_marked : c >= ct_total

(* ------------------------------------------------------------------ *)
(* C27                                                                *)
(* ------------------------------------------------------------------ *)
\* the sum of f over a finite set
RECURSIVE SumOver(_, _)
SumOver(f, S) ==
    IF S = {} THEN 0
    ELSE LET x == CHOOSE y \in S : TRUE IN f[x] + SumOver(f, S \ {x})

\* the bytes of the frames send_file has sent, over all streams
SentBytes == SumOver([x \in SentFrames |-> FrameAt(x).size], SentFrames)

\* the bytes of the chunks of the resume skip set
SkippedBytes ==
    SumOver([c \in pt_skip |-> WorkSize(pt_file_size, c)], pt_skip)

\* every frame sent is within chunk_size and within the file, and only the
\* frame that ends the file is shorter than chunk_size
FramesWithinFile ==
    \A x \in SentFrames :
        LET fr == FrameAt(x) IN
        /\ fr.size <= ChunkSize
        /\ fr.offset + fr.size <= pt_file_size
        /\ fr.size < ChunkSize => fr.offset + fr.size = pt_file_size

\* send_file has returned success and no worker reported an error
SentToTheEnd == ps_result = <<TELEPORT_OK>> /\ ps_errors = 0

\* C27: every chunk frame a sender produces has size <= chunk_size and
\* offset + size <= file_size, only the last chunk of a file may be shorter
\* than chunk_size, and the sizes of the frames of one file sum to
\* file_size.
C27_FramesSumToFileSize ==
    /\ FramesWithinFile
    /\ SentToTheEnd => SentBytes = pt_file_size

\* C27 with the resume skip set counted: the frames of a file sent to its
\* end and the chunks left out for resume sum to file_size
C27_FramesAndSkippedSumToFileSize ==
    /\ FramesWithinFile
    /\ SentToTheEnd => SentBytes + SkippedBytes = pt_file_size

\* send_file has returned after sending a short last chunk while a chunk
\* of the skip set was left out
C27_Witness ==
    /\ SentToTheEnd
    /\ pt_skip # {}
    /\ \E x \in SentFrames :
          FrameAt(x).size < ChunkSize /\ FrameAt(x).size > 0

\* the CHUNK frames of file f on the control connection
ClientChunks(f) ==
    {i \in 1..Len(c2s) : c2s[i].type = "CHUNK" /\ c2s[i].file_id = f - 1}

\* the same for ControlClient::transfer_file: the frames of each file are
\* within chunk_size and the file, and those of a file the client has gone
\* past sum to its size
C27_ControlClientFrames ==
    \A f \in 1..Len(files) :
        /\ \A i \in ClientChunks(f) :
              /\ c2s[i].size <= ChunkSize
              /\ c2s[i].offset + c2s[i].size <= files[f]
              /\ c2s[i].size < ChunkSize =>
                    c2s[i].offset + c2s[i].size = files[f]
        /\ cc_file_idx > f =>
              SumOver([i \in ClientChunks(f) |-> c2s[i].size],
                      ClientChunks(f)) = files[f]

(* ------------------------------------------------------------------ *)
(* C28                                                                *)
(* ------------------------------------------------------------------ *)
\* the terminal state that matches what send_files ended with
TerminalStateFor(err) ==
    IF err = TELEPORT_OK THEN "Complete"
    ELSE IF err = TELEPORT_ERROR_CANCELLED THEN "Cancelled"
    ELSE "Failed"

\* C28: when a sender session has ended, the state reported for the
\* transfer is the terminal state that matches its outcome: Complete after
\* success, Failed after an error, Cancelled after cancellation.
C28_TerminalStateMatchesOutcome ==
    cc_pc = "returned" => m_state = TerminalStateFor(cc_result[1])

(* ------------------------------------------------------------------ *)
(* C29                                                                *)
(* ------------------------------------------------------------------ *)
\* C29: the port carried by every announcement an engine broadcasts while
\* its control server listens is the TCP port the listener is bound to,
\* also when control_port = 0 selects the port or the configured port was
\* busy, so a peer that connects to the address it stored reaches the
\* control server.
C29_AnnouncedPortIsBoundPort ==
    \A a \in announced : a.listening => a.port = a.bound

(* ------------------------------------------------------------------ *)
(* C30                                                                *)
(* ------------------------------------------------------------------ *)
\* the ports of the range that no other program holds
FreeControlPorts == ControlPortRange \ busy_ports

\* C30: with control_port = 0, starting the control server binds the
\* lowest-numbered free port of 45455..45555, and fails in bind only if
\* every one of the 101 ports of the range is in use.
C30_AutoPortIsLowestFree ==
    cfg_control_port = 0 =>
        /\ srv_fail = "bind" => FreeControlPorts = {}
        /\ (srv_running /\ FreeControlPorts # {}) =>
              /\ m_port \in FreeControlPorts
              /\ \A p \in FreeControlPorts : m_port <= p

(* ------------------------------------------------------------------ *)
(* C31                                                                *)
(* ------------------------------------------------------------------ *)
\* C31: no wakeup is lost on the pause condition variable: whatever the
\* interleaving of pause(), resume() and cancel() with a worker's test of
\* the paused flag and its wait, a worker is blocked in m_pause_cv.wait
\* only while the transfer is paused and not cancelled, so that after
\* resume() it proceeds, after cancel() it exits, and send_file returns.
\* Workers that reported an error are left aside.
C31_NoLostWakeup ==
    ps_errors = 0 =>
        \A i \in Streams :
            ps_wpc[i] = "waiting" => (ps_paused /\ ~ps_cancelled)

(* ------------------------------------------------------------------ *)
(* C32                                                                *)
(* ------------------------------------------------------------------ *)
\* no receiver worker is inside mark_received
NoWorkerMarking ==
    \A i \in Streams : pr_wpc[i] \notin {"mark", "mark_store"}

\* C32: updates of the chunk tracker are mutually exclusive: when several
\* receiver workers mark chunks of the file concurrently no update is lost,
\* so that once every chunk written has been marked the tracker holds each
\* of them, and once all chunks of the file are written, one of them at
\* least in this call, received_count is total_chunks and the completion
\* is detected.
C32_NoLostUpdate ==
    (pr_pc = "receiving" /\ NoWorkerMarking) =>
        /\ pr_written \subseteq m_tracker.m_chunks
        /\ (AllChunksOnDisk /\ pr_written # {}) =>
              /\ m_tracker.m_received = TotalChunks(pt_file_size)
              /\ ~pr_running

(* ------------------------------------------------------------------ *)
(* C33                                                                *)
(* ------------------------------------------------------------------ *)
\* worker i is inside recv_all for a header on a stream that carries no
\* further data (send_file has returned and every frame is read) and that
\* fails no receive until the sender closes it
WaitsForClose(i) ==
    /\ pr_pc = "receiving"
    /\ pr_wpc[i] = "recv"
    /\ ps_pc = "returned"
    /\ pt_rd[i] = Len(pt_stream[i])
    /\ ~RecvCanFail

\* C33: once every chunk of the file has been received, receive_file
\* returns: every receiver worker exits, also a worker whose stream carries
\* no further data, without the sender having to close its streams; so no
\* worker is left inside a receive that only a close can end.  Taken for
\* a file of one chunk at least.
C33_ReturnsWithoutClose ==
    (AllChunksReceived /\ pr_written # {}
        /\ IsComplete(m_tracker, TotalChunks(pt_file_size))) =>
        \A i \in Streams : ~WaitsForClose(i)

(* ------------------------------------------------------------------ *)
(* C34                                                                *)
(* ------------------------------------------------------------------ *)
\* C34: whatever chunk headers the peer sends, the receiver never reads
\* more than chunk_size data bytes for a chunk, never writes outside
\* [0, file_size) of the output file and never writes more than file_size
\* bytes in all for the file.
C34_HeadersKeptInBounds ==
    /\ hv_maxread <= ChunkSize
    /\ hv_written \subseteq 0..(hv_file_size - 1)
    /\ hv_total <= hv_file_size

\* the same for the receiver of the control connection alone
C34_ControlServerInBounds ==
    hv_kind = "control" => C34_HeadersKeptInBounds

(* ------------------------------------------------------------------ *)
(* C35                                                                *)
(* ------------------------------------------------------------------ *)
\* the calls that have passed the test of m_state and not yet returned
Proceeding == {t \in Callers : sf_pc[t] \in {"checked", "built", "session"}}

\* C35: at most one sender session is active per ControlClient: of
\* send_files calls that overlap at most one proceeds, and the session that
\* runs keeps its own file list and callbacks and the cancel request made
\* on it.
C35_OneSessionAtATime ==
    /\ Cardinality(Proceeding) <= 1
    /\ \A t \in Callers :
          sf_pc[t] = "session" => sf_files = t /\ sf_callbacks = t

(* ------------------------------------------------------------------ *)
(* C36                                                                *)
(* ------------------------------------------------------------------ *)
\* entry k of the list is on disk with its own content
OnDiskComplete(k) ==
    LET output_path == OutputPathOf(fl_names[k], IdOf(k)) IN
    /\ output_path \in DOMAIN fl_disk
    /\ fl_disk[output_path] = ContentOf(k)

\* C36: after a session the receiver reports as successful every file of
\* the FILE_LIST is in the output directory with its own complete content,
\* also when two names sanitize to the same string.
C36_EveryFileKeepsItsContent ==
    (fl_pc = "done" /\ fl_names # <<>>) =>
        \A k \in 1..Len(fl_names) : OnDiskComplete(k)

(* ------------------------------------------------------------------ *)
(* C37                                                                *)
(* ------------------------------------------------------------------ *)
\* this step calls on_found for p: p enters the list
FoundFires(p) == p \notin DOMAIN m_devices /\ p \in DOMAIN m_devices'

\* this step calls on_lost for p: the expiration loop erases p
LostFires(p) ==
    /\ p \in DOMAIN m_devices /\ p \notin DOMAIN m_devices'
    /\ disc_running'

\* C37: for each device id the found and lost callbacks alternate, starting
\* with found: on_found is never called for an id whose last callback was
\* on_found, and on_lost only for an id whose last callback was on_found,
\* also when discovery is stopped and started again.
C37_FoundAndLostAlternate ==
    [][\A p \in Peers :
          /\ FoundFires(p) => d_last_cb[p] # "found"
          /\ LostFires(p) => d_last_cb[p] = "found"]_vars

(* ------------------------------------------------------------------ *)
(* C38                                                                *)
(* ------------------------------------------------------------------ *)
\* C38: load(f, s) returns a valid state only if that state was saved for
\* exactly the pair (f, s).
C38_LoadReturnsOwnState ==
    (rk_loaded # <<>> /\ is_valid(rk_loaded[1].state)) =>
        /\ <<rk_loaded[1].file_name, rk_loaded[1].sender_id>> \in rk_saved
        /\ rk_loaded[1].state.file_name = rk_loaded[1].file_name
        /\ rk_loaded[1].state.sender_id = rk_loaded[1].sender_id

(* ------------------------------------------------------------------ *)
(* C39                                                                *)
(* ------------------------------------------------------------------ *)
\* stop waits in join for an accept thread that is blocked in a read no
\* step of the server or of the peer ends
StopWaitsForSilentPeer ==
    /\ st_stop = "join" /\ st_acc = "read"
    /\ st_read = st_sent /\ st_peer = "silent"

\* C39: ControlServer::stop returns from every state, also while a
\* connection is handled and the connected peer sends nothing; once it has
\* returned the accept thread has exited and no receiver callback is
\* called any more.
C39_StopReturns ==
    /\ ~StopWaitsForSilentPeer
    /\ st_stop = "returned" => st_acc = "exited"
    /\ ~st_late_cb

(* ------------------------------------------------------------------ *)
(* C40                                                                *)
(* ------------------------------------------------------------------ *)
\* (chunk_id * chunk_size) mod 2^32
StartOffsetMod2To32(chunk_id) == TruncateU32(Offset64(chunk_id))

\* C40: in every chunk frame a sender emits header.offset is the chunk's
\* starting byte offset within its file, chunk_id * chunk_size, modulo
\* 2^32, also for files of 4 GiB and more.
C40_OffsetIsStartMod2To32 ==
    of_header # <<>> =>
        of_header[1].offset = StartOffsetMod2To32(of_header[1].chunk_id)

\* the same for the senders that cast the offset to uint32_t
C40_ControlSendersOffset ==
    (of_header # <<>> /\ of_sender # "ParallelTransfer") =>
        of_header[1].offset = StartOffsetMod2To32(of_header[1].chunk_id)

====
